---------------------------- MODULE Spec2Model ----------------------------
(***************************************************************************)
(* StoryForge simulation core (src/src/core/engine.ts): WorldState,        *)
(* GateEvaluator, ViewBuilder and the frame loop of SimulationEngine.      *)
(*                                                                         *)
(* One engine, one loaded storyworld, one created simulation.  A frame is  *)
(* executed in the steps the JavaScript run-to-completion semantics give:  *)
(* the synchronous prefix of executeFrame (status check and observation),  *)
(* one step per awaited decision callback, one step per resolved action    *)
(* and the synchronous suffix (transition, completion check, snapshot).    *)
(***************************************************************************)
EXTENDS Integers, Sequences, FiniteSets, TLC

\* ------------------------------------------------------------------------
\* Bounds of the model
\* ------------------------------------------------------------------------
\* largest configured maxFrames tried
MaxFramesBound == 2
\* inputs of a run that are not "no action": choice ids and messages the
\* decision callbacks return, callbacks that throw or time out, and direct
\* calls of complete()
MaxInputs == 2

\* ------------------------------------------------------------------------
\* Program constants
\* ------------------------------------------------------------------------
\* ViewBuilder.buildRecentHistory: .slice(-10)
RecentWindow == 10
\* SimulationEngine.buildAgentView: .slice(-20)
EngineWindow == 20

None == "none"

\* ------------------------------------------------------------------------
\* Runtime values (JavaScript `unknown`), tagged by their runtime type
\* ------------------------------------------------------------------------
Num(k) == [t |-> "num", n |-> k, b |-> FALSE, s |-> <<>>]
Bool(v) == [t |-> "bool", n |-> 0, b |-> v, s |-> <<>>]
Arr(q) == [t |-> "seq", n |-> 0, b |-> FALSE, s |-> q]
Undef == [t |-> "undef", n |-> 0, b |-> FALSE, s |-> <<>>]
NaN == [t |-> "nan", n |-> 0, b |-> FALSE, s |-> <<>>]
\* a string produced by `+` on a non-number; its text is not tracked
Str == [t |-> "str", n |-> 0, b |-> FALSE, s |-> <<>>]

\* JavaScript ToNumber, as used by the arithmetic and relational operators
RECURSIVE ToNumber(_)
ToNumber(v) ==
    CASE v.t = "num" -> v
      [] v.t = "bool" -> Num(IF v.b THEN 1 ELSE 0)
      [] v.t = "seq" -> IF Len(v.s) = 0 THEN Num(0)
                        ELSE IF Len(v.s) = 1 THEN ToNumber(v.s[1])
                        ELSE NaN
      [] OTHER -> NaN

\* JavaScript ===  (arrays are compared by identity: a literal of the
\* storyworld and a runtime array are never the same object; NaN # NaN)
StrictEq(a, b) ==
    /\ a.t = b.t
    /\ CASE a.t = "num" -> a.n = b.n
         [] a.t = "bool" -> a.b = b.b
         [] a.t = "undef" -> TRUE
         [] OTHER -> FALSE

\* JavaScript truthiness
Truthy(v) ==
    CASE v.t = "num" -> v.n # 0
      [] v.t = "bool" -> v.b
      [] v.t = "seq" -> TRUE
      [] v.t = "str" -> TRUE
      [] OTHER -> FALSE

\* Array.prototype.slice(-k)
SliceLast(q, k) ==
    IF Len(q) <= k THEN q ELSE SubSeq(q, Len(q) - k + 1, Len(q))

\* JavaScript SameValueZero, the comparison of Array.prototype.includes
SameValueZero(a, b) == StrictEq(a, b) \/ (a.t = "nan" /\ b.t = "nan")

\* ------------------------------------------------------------------------
\* The loaded storyworld (static narrative definition)
\* ------------------------------------------------------------------------
Var(id, type, scope, def) ==
    [id |-> id, type |-> type, scope |-> scope, defaultValue |-> def]
Mut(var, op, val) == [variableId |-> var, operation |-> op, value |-> val]
Cond(op, var, val, kids) ==
    [operator |-> op, variableId |-> var, value |-> val, children |-> kids]
Choice(id, gate, muts, nextEnc, nextSpool, terminal) ==
    [id |-> id, gateId |-> gate, mutations |-> muts,
     nextEncounterId |-> nextEnc, nextSpoolId |-> nextSpool,
     isTerminal |-> terminal]

\* one variable of every scope
StoryVariables ==
    << Var("trust", "NUMBER", "GLOBAL", Num(1)),
       Var("mood", "BOOLEAN", "AGENT", Bool(FALSE)),
       Var("pact", "NUMBER", "DYADIC", Num(0)),
       Var("notes", "SET", "LOCAL", Arr(<<>>)) >>

\* one well-formed gate, a NOT without child and an operator that is not
\* one of GateOperator (loadStoryworld validates nothing)
StoryGates ==
    << [id |-> "high_trust",
        condition |-> Cond("GTE", "trust", Num(2), <<>>)],
       [id |-> "no_child",
        condition |-> Cond("NOT", None, Undef, <<>>)],
       [id |-> "odd_op",
        condition |-> Cond("XOR", "trust", Num(1), <<>>)] >>

StorySpools ==
    << [id |-> "intro", entryGateId |-> None, entryEncounterId |-> "meet"],
       [id |-> "alliance", entryGateId |-> "high_trust",
        entryEncounterId |-> "treaty"],
       [id |-> "vault", entryGateId |-> "no_child",
        entryEncounterId |-> "treaty"],
       [id |-> "annex", entryGateId |-> "odd_op",
        entryEncounterId |-> "treaty"] >>

StoryEncounters ==
    << [id |-> "meet", spoolId |-> "intro",
        choices |->
          << Choice("propose", None,
                    << Mut("trust", "ADD", Num(1)),
                       Mut("pact", "SET", Num(1)) >>,
                    "negotiate", "alliance", FALSE),
             Choice("decline", "high_trust",
                    << Mut("mood", "TOGGLE", Undef) >>,
                    "negotiate", "alliance", TRUE) >>],
       [id |-> "negotiate", spoolId |-> "intro",
        choices |->
          << Choice("ally", None,
                    << Mut("notes", "APPEND", Num(1)) >>,
                    None, "alliance", FALSE),
             Choice("sabotage", None,
                    << Mut("mood", "ADD", Num(1)),
                       Mut("trust", "REMOVE", Num(1)) >>,
                    None, None, FALSE) >>],
       [id |-> "treaty", spoolId |-> "alliance",
        choices |->
          << Choice("sign", None,
                    << Mut("ghost", "SET", Num(1)) >>,
                    None, "intro", FALSE),
             Choice("wait", None, <<>>, None, None, FALSE) >>] >>

Range(q) == {q[i] : i \in DOMAIN q}

DeclaredVarIds == {v.id : v \in Range(StoryVariables)}
AllChoices == UNION {Range(e.choices) : e \in Range(StoryEncounters)}
ChoiceIds == {c.id : c \in AllChoices}
\* a choice id that exists in no encounter
BogusChoice == "bogus"

\* storyworld.variables.find(vd => vd.id === id)
NoVarDef == Var(None, None, None, Undef)
VarDef(id) ==
    LET hits == SelectSeq(StoryVariables, LAMBDA v : v.id = id)
    IN  IF hits = <<>> THEN NoVarDef ELSE hits[1]

\* ------------------------------------------------------------------------
\* Agents of the created simulation, in declaration order
\* ------------------------------------------------------------------------
Agents == << "a1", "a2", "a3" >>
\* isActive of the agent slots handed to createSimulation
SlotActive == [a \in {"a1", "a2", "a3"} |-> a # "a2"]
AgentIds == Range(Agents)
NumAgents == Len(Agents)

\* ------------------------------------------------------------------------
\* State
\* ------------------------------------------------------------------------
VARIABLES
    status,         \* simulation.status
    currentFrame,   \* simulation.currentFrame
    maxFrames,      \* config.maxFrames
    isActive,       \* simulation.agents[..].isActive
    wsFrame,        \* WorldState.frame
    variables,      \* WorldState.variables: id -> VariableState
    spoolProgress,  \* WorldState.spoolProgress: agentId -> SpoolProgress[]
    events,         \* SimulationEngine.events
    sessionData,    \* SimulationEngine.sessionData: agentId -> choice ledger
    pc,             \* position of the executeFrame in progress
    cidx,           \* index of the agent whose callback is awaited
    agentViews,     \* executeFrame: agentViews of the frame in progress
    actions,        \* executeFrame: actions map, in insertion order
    ridx,           \* index of the next entry of actions to resolve
    lastCall,       \* last public call and how it ended
    pendingLate,    \* callbacks that lost the race and have not answered yet
    budget,         \* number of inputs used so far
    eventHandlers,  \* SimulationEngine.eventHandlers, in registration order
    deliveries,     \* the calls of event handlers made so far, in order
    exported,       \* the lists exportSessionOutcomes returned, in order
    snapshotInterval,   \* config.snapshotInterval
    snapshotsTaken,     \* the values takeSnapshot returned, in order
    snapshotsSaved      \* the snapshots handed to the persistence collaborator

vars == << status, currentFrame, maxFrames, isActive, wsFrame, variables,
           spoolProgress, events, sessionData, pc, cidx, agentViews, actions,
           ridx, lastCall, pendingLate, budget, eventHandlers, deliveries,
           exported, snapshotInterval, snapshotsTaken, snapshotsSaved >>

\* everything a failed call must leave alone
simState == << status, currentFrame, wsFrame, variables, spoolProgress,
               events, sessionData >>

\* ------------------------------------------------------------------------
\* WorldState
\* ------------------------------------------------------------------------
\* WorldState.initializeVariables
InitializeVariables ==
    [id \in DeclaredVarIds |->
        [variableId |-> id, value |-> VarDef(id).defaultValue,
         lastModifiedFrame |-> 0, modifiedBy |-> None]]

\* WorldState.setVariable
SetVariable(vs, id, value, modifiedBy, frame) ==
    [x \in DOMAIN vs \cup {id} |->
        IF x = id
        THEN [variableId |-> id, value |-> value,
              lastModifiedFrame |-> frame, modifiedBy |-> modifiedBy]
        ELSE vs[x]]

\* the spread [...x] needs an iterable, x.filter needs an array
MutationThrows(vs, m) ==
    /\ m.variableId \in DOMAIN vs
    /\ LET cur == vs[m.variableId].value
       IN  \/ m.operation = "APPEND" /\ cur.t \notin {"seq", "str"}
           \/ m.operation = "REMOVE" /\ cur.t # "seq"

\* the switch with REMOVE dropping the first equal element only
NewValue_RemoveFirst(cur, m) ==
    CASE m.operation = "SET" -> m.value
      [] m.operation = "ADD" ->
            IF cur.t \in {"seq", "str"} \/ m.value.t \in {"seq", "str"}
            THEN Str
            ELSE IF ToNumber(cur).t = "nan" \/ ToNumber(m.value).t = "nan"
            THEN NaN
            ELSE Num(ToNumber(cur).n + ToNumber(m.value).n)
      [] m.operation = "SUBTRACT" ->
            IF ToNumber(cur).t = "nan" \/ ToNumber(m.value).t = "nan"
            THEN NaN
            ELSE Num(ToNumber(cur).n - ToNumber(m.value).n)
      [] m.operation = "MULTIPLY" ->
            IF ToNumber(cur).t = "nan" \/ ToNumber(m.value).t = "nan"
            THEN NaN
            ELSE Num(ToNumber(cur).n * ToNumber(m.value).n)
      [] m.operation = "APPEND" ->
            IF cur.t = "seq" THEN Arr(Append(cur.s, m.value))
            ELSE Arr(<<Str, m.value>>)
      [] m.operation = "REMOVE" ->
            LET hit == {k \in DOMAIN cur.s : StrictEq(cur.s[k], m.value)}
            IN  IF hit = {} THEN Arr(cur.s)
                ELSE LET f == CHOOSE k \in hit : \A l \in hit : k <= l
                     IN  Arr(SubSeq(cur.s, 1, f - 1)
                             \o SubSeq(cur.s, f + 1, Len(cur.s)))
      [] m.operation = "TOGGLE" -> Bool(~Truthy(cur))
      [] OTHER -> m.value

\* the switch of WorldState.applyMutation
NewValue(cur, m) ==
    CASE m.operation = "SET" -> m.value
      [] m.operation = "ADD" ->
            IF cur.t \in {"seq", "str"} \/ m.value.t \in {"seq", "str"}
            THEN Str
            ELSE IF ToNumber(cur).t = "nan" \/ ToNumber(m.value).t = "nan"
            THEN NaN
            ELSE Num(ToNumber(cur).n + ToNumber(m.value).n)
      [] m.operation = "SUBTRACT" ->
            IF ToNumber(cur).t = "nan" \/ ToNumber(m.value).t = "nan"
            THEN NaN
            ELSE Num(ToNumber(cur).n - ToNumber(m.value).n)
      [] m.operation = "MULTIPLY" ->
            IF ToNumber(cur).t = "nan" \/ ToNumber(m.value).t = "nan"
            THEN NaN
            ELSE Num(ToNumber(cur).n * ToNumber(m.value).n)
      [] m.operation = "APPEND" ->
            IF cur.t = "seq" THEN Arr(Append(cur.s, m.value))
            ELSE Arr(<<Str, m.value>>)
      [] m.operation = "REMOVE" ->
            Arr(SelectSeq(cur.s, LAMBDA v : ~StrictEq(v, m.value)))
      [] m.operation = "TOGGLE" -> Bool(~Truthy(cur))
      [] OTHER -> m.value

\* applyMutation without its check for a missing VariableState
ApplyMutation_Upsert(vs, m, actorId, frame) ==
    SetVariable(vs, m.variableId,
                NewValue(IF m.variableId \in DOMAIN vs
                         THEN vs[m.variableId].value ELSE Undef, m),
                actorId, frame)

\* WorldState.applyMutation, when it does not throw
ApplyMutation(vs, m, actorId, frame) ==
    IF m.variableId \notin DOMAIN vs THEN vs
    ELSE SetVariable(vs, m.variableId, NewValue(vs[m.variableId].value, m),
                     actorId, frame)

RECURSIVE SetToSeq(_)
SetToSeq(S) ==
    IF S = {} THEN <<>>
    ELSE LET x == CHOOSE y \in S : TRUE IN <<x>> \o SetToSeq(S \ {x})

\* WorldState.getAllVariables: the values of the map in insertion order
GetAllVariables(vs) ==
    LET declared == SelectSeq(StoryVariables, LAMBDA v : v.id \in DOMAIN vs)
        ids == [i \in DOMAIN declared |-> declared[i].id]
            \o SetToSeq(DOMAIN vs \ DeclaredVarIds)
    IN  [i \in DOMAIN ids |-> vs[ids[i]]]

\* WorldState.getVariable(id)?.value
VarValue(vs, id) == IF id \in DOMAIN vs THEN vs[id].value ELSE Undef

\* ------------------------------------------------------------------------
\* GateEvaluator
\* ------------------------------------------------------------------------
\* the relational operators with GT and LT taken as GTE and LTE
Compare_OrEqual(op, a, b) ==
    LET x == ToNumber(a)
        y == ToNumber(b)
    IN  /\ x.t = "num"
        /\ y.t = "num"
        /\ CASE op \in {"GT", "GTE"} -> x.n >= y.n
             [] op \in {"LT", "LTE"} -> x.n <= y.n

\* the relational operators of JavaScript on two values
Compare(op, a, b) ==
    LET x == ToNumber(a)
        y == ToNumber(b)
    IN  /\ x.t = "num"
        /\ y.t = "num"
        /\ CASE op = "GT" -> x.n > y.n
             [] op = "GTE" -> x.n >= y.n
             [] op = "LT" -> x.n < y.n
             [] op = "LTE" -> x.n <= y.n

Includes(arr, value) == \E i \in DOMAIN arr : SameValueZero(arr[i], value)

RECURSIVE EvaluateCondition(_, _)
EvaluateCondition(cond, vs) ==
    LET varValue == IF cond.variableId # None
                    THEN VarValue(vs, cond.variableId) ELSE Undef
        op == cond.operator
    IN  CASE op = "EQ" -> StrictEq(varValue, cond.value)
          [] op = "NEQ" -> ~StrictEq(varValue, cond.value)
          [] op \in {"GT", "GTE", "LT", "LTE"} ->
                Compare(op, varValue, cond.value)
          [] op = "CONTAINS" ->
                varValue.t = "seq" /\ Includes(varValue.s, cond.value)
          [] op = "NOT_CONTAINS" ->
                varValue.t # "seq" \/ ~Includes(varValue.s, cond.value)
          [] op = "EXISTS" -> varValue.t # "undef"
          [] op = "NOT_EXISTS" -> varValue.t = "undef"
          [] op = "AND" ->
                \A i \in DOMAIN cond.children :
                    EvaluateCondition(cond.children[i], vs)
          [] op = "OR" ->
                \E i \in DOMAIN cond.children :
                    EvaluateCondition(cond.children[i], vs)
          [] op = "NOT" ->
                ~(cond.children # <<>>
                  /\ EvaluateCondition(cond.children[1], vs))
          [] OTHER -> TRUE

\* an evaluator with a memory: a gate stays open once the log is long
Evaluate_Latched(gateId, vs) ==
    LET hits == SelectSeq(StoryGates, LAMBDA g : g.id = gateId)
    IN  IF hits = <<>> THEN TRUE
        ELSE EvaluateCondition(hits[1].condition, vs) \/ Len(events) > 4

\* GateEvaluator.evaluate
Evaluate(gateId, vs) ==
    LET hits == SelectSeq(StoryGates, LAMBDA g : g.id = gateId)
    IN  IF hits = <<>> THEN TRUE
        ELSE EvaluateCondition(hits[1].condition, vs)

\* ------------------------------------------------------------------------
\* Events
\* ------------------------------------------------------------------------
\* the payload fields the engine writes, in one record shape
Payload(ref, op, val, flag, count) ==
    [ref |-> ref, op |-> op, val |-> val, flag |-> flag, count |-> count]
NoPayload == Payload(None, None, Undef, FALSE, 0)

\* the SimulationEvent built by SimulationEngine.emitEvent
Event(category, eventType, payload, actorId, frame) ==
    [category |-> category, eventType |-> eventType, payload |-> payload,
     actorId |-> actorId, frame |-> frame, stage |-> "RESOLUTION"]

\* emitEvent putting the event in front of the log
EmitEvent_Unshift(evts, category, eventType, payload, actorId, frame) ==
    << Event(category, eventType, payload, actorId, frame) >> \o evts

\* SimulationEngine.emitEvent: this.events.push(event)
EmitEvent(evts, category, eventType, payload, actorId, frame) ==
    Append(evts, Event(category, eventType, payload, actorId, frame))

\* the handlers an engine user registers: "h1" throws on every event
RegisteredHandlers == << "h1", "h2" >>
HandlerThrows(h) == h = "h1"

\* emitEvent without its try/catch: a throwing handler ends the loop
AfterHandler_Rethrow(i, threw) ==
    IF threw THEN Len(eventHandlers) + 1 ELSE i + 1

\* the try/catch around handler(event): the loop goes on with the next
\* handler whether the handler threw or not
AfterHandler(i, threw) == i + 1

\* the handler loop of emitEvent for event e, the n-th of the log
RECURSIVE CallHandlers(_, _, _, _)
CallHandlers(dl, i, e, n) ==
    IF i > Len(eventHandlers) THEN dl
    ELSE CallHandlers(Append(dl, [handler |-> eventHandlers[i], index |-> n,
                                  eventType |-> e.eventType]),
                      AfterHandler(i, HandlerThrows(eventHandlers[i])), e, n)

\* the handler loops of the events pushed at positions k.. of evts, each
\* run right after the push of its event
RECURSIVE DeliverNew(_, _, _)
DeliverNew(dl, evts, k) ==
    IF k > Len(evts) THEN dl
    ELSE DeliverNew(CallHandlers(dl, 1, evts[k], k), evts, k + 1)

\* ------------------------------------------------------------------------
\* ViewBuilder
\* ------------------------------------------------------------------------
\* getVisibleVariables hiding LOCAL variables only
GetVisibleVariables_NotLocal(agentId, vs) ==
    SelectSeq(GetAllVariables(vs),
              LAMBDA v : /\ VarDef(v.variableId).id # None
                         /\ VarDef(v.variableId).scope # "LOCAL")

\* ViewBuilder.getVisibleVariables
GetVisibleVariables(agentId, vs) ==
    SelectSeq(GetAllVariables(vs),
              LAMBDA v : /\ VarDef(v.variableId).id # None
                         /\ VarDef(v.variableId).scope \in {"GLOBAL", "AGENT"})

\* getAvailableSpools hiding only the spools the agent is ACTIVE in
GetAvailableSpools_ActiveOnly(agentId, vs, progress) ==
    LET activeSpoolIds ==
            {progress[i].spoolId :
                i \in {k \in DOMAIN progress : progress[k].status = "ACTIVE"}}
        kept == SelectSeq(StorySpools,
                    LAMBDA sp : /\ sp.id \notin activeSpoolIds
                                /\ (sp.entryGateId = None
                                    \/ Evaluate(sp.entryGateId, vs)))
    IN  [i \in DOMAIN kept |-> kept[i].id]

\* ViewBuilder.getAvailableSpools (the spool ids of the entries)
GetAvailableSpools(agentId, vs, progress) ==
    LET activeSpoolIds == {progress[i].spoolId : i \in DOMAIN progress}
        kept == SelectSeq(StorySpools,
                    LAMBDA sp : /\ sp.id \notin activeSpoolIds
                                /\ (sp.entryGateId = None
                                    \/ Evaluate(sp.entryGateId, vs)))
    IN  [i \in DOMAIN kept |-> kept[i].id]

\* storyworld.encounters.find(e => e.id === id)
NoEncounter == [id |-> None, spoolId |-> None, choices |-> <<>>]
EncounterById(id) ==
    LET hits == SelectSeq(StoryEncounters, LAMBDA e : e.id = id)
    IN  IF hits = <<>> THEN NoEncounter ELSE hits[1]

\* ViewBuilder.getCurrentEncounter: the first progress entry, whatever
\* its status, whose current encounter id is set and names an encounter
GetCurrentEncounter(agentId, activeSpools) ==
    LET hits == SelectSeq(activeSpools,
                    LAMBDA p : /\ p.currentEncounterId # None
                               /\ EncounterById(p.currentEncounterId).id # None)
    IN  IF hits = <<>> THEN None ELSE hits[1].currentEncounterId

\* getAvailableChoices without the gate filter
GetAvailableChoices_Ungated(encounterId, vs, agentId) ==
    LET kept == EncounterById(encounterId).choices
    IN  [i \in DOMAIN kept |-> kept[i].id]

\* ViewBuilder.getAvailableChoices (the ids of the choices)
GetAvailableChoices(encounterId, vs, agentId) ==
    LET kept == SelectSeq(EncounterById(encounterId).choices,
                    LAMBDA c : c.gateId = None \/ Evaluate(c.gateId, vs))
    IN  [i \in DOMAIN kept |-> kept[i].id]

\* ViewBuilder.summarizeEvent: the engine passes SimulationEvents, which
\* carry encounterId, spoolId and variableId in the payload only, so the
\* interpolated property is undefined
SummarizeEvent(e) ==
    CASE e.eventType = "CHOICE_MADE" -> "Made choice in undefined"
      [] e.eventType = "SPOOL_ENTERED" ->
            "Entered narrative thread: undefined"
      [] e.eventType = "SPOOL_COMPLETED" ->
            "Completed narrative thread: undefined"
      [] e.eventType = "VARIABLE_CHANGED" -> "World state changed: undefined"
      [] OTHER -> e.eventType

HistoryEntry(e) ==
    [frame |-> e.frame, event |-> e.eventType, summary |-> SummarizeEvent(e)]

\* the agentId property of a SimulationEvent read as a NarrativeEvent:
\* SimulationEvent has no such property
NarrativeAgentId(e) == None

\* ViewBuilder.buildRecentHistory
BuildRecentHistory(agentId, recentEvents) ==
    LET own == SelectSeq(recentEvents,
                   LAMBDA e : NarrativeAgentId(e) = agentId
                              \/ NarrativeAgentId(e) = None)
        last == SliceLast(own, RecentWindow)
    IN  [i \in DOMAIN last |-> HistoryEntry(last[i])]

\* ViewBuilder.buildView
BuildView(agentId, vs, progress, frame, recentEvents) ==
    LET currentEncounter == GetCurrentEncounter(agentId, progress)
    IN  [agentId |-> agentId,
         frame |-> frame,
         visibleVariables |-> GetVisibleVariables(agentId, vs),
         availableSpools |-> GetAvailableSpools(agentId, vs, progress),
         activeSpools |-> progress,
         currentEncounter |-> currentEncounter,
         availableChoices |->
            IF currentEncounter # None
            THEN GetAvailableChoices(currentEncounter, vs, agentId)
            ELSE <<>>,
         recentHistory |-> BuildRecentHistory(agentId, recentEvents)]

\* buildAgentView without its actor filter
RecentEvents_Unfiltered(agentId, evts) == SliceLast(evts, EngineWindow)

\* the events SimulationEngine.buildAgentView hands to the view builder
RecentEvents(agentId, evts) ==
    SliceLast(SelectSeq(evts, LAMBDA e : e.actorId = agentId
                                         \/ e.actorId = None),
              EngineWindow)

\* SimulationEngine.buildAgentView (first storyworld, which is loaded)
BuildAgentView(agentId, evts, vs, sp, frame) ==
    BuildView(agentId, vs, sp[agentId], frame, RecentEvents(agentId, evts))

\* an agent that got no view in the frame
NoView ==
    [agentId |-> None, frame |-> 0, visibleVariables |-> <<>>,
     availableSpools |-> <<>>, activeSpools |-> <<>>,
     currentEncounter |-> None, availableChoices |-> <<>>,
     recentHistory |-> <<>>]

\* observation loop of executeFrame from agent i on: the views built and
\* the log with one VIEW_DELIVERED per active agent
RECURSIVE Observation(_, _, _)
Observation(i, evts, views) ==
    IF i > NumAgents THEN [events |-> evts, views |-> views]
    ELSE IF ~isActive[Agents[i]] THEN Observation(i + 1, evts, views)
    ELSE LET a == Agents[i]
             view == BuildAgentView(a, evts, variables, spoolProgress,
                                    wsFrame)
         IN  Observation(i + 1,
                 EmitEvent(evts, "SYSTEM", "VIEW_DELIVERED",
                           Payload(a, None, Undef,
                                   view.currentEncounter # None,
                                   Len(view.availableChoices)),
                           a, currentFrame),
                 [views EXCEPT ![a] = view])

\* ------------------------------------------------------------------------
\* SimulationEngine: choice resolution
\* ------------------------------------------------------------------------
NoChoice == Choice(None, None, <<>>, None, None, FALSE)

\* the scan of processChoice: the first encounter, in declaration order,
\* that has a choice of this id, and that choice
FindChoice(choiceId) ==
    LET hits == SelectSeq(StoryEncounters,
                    LAMBDA e : \E i \in DOMAIN e.choices :
                                   e.choices[i].id = choiceId)
    IN  IF hits = <<>>
        THEN [encounter |-> NoEncounter, choice |-> NoChoice]
        ELSE [encounter |-> hits[1],
              choice |-> SelectSeq(hits[1].choices,
                                   LAMBDA c : c.id = choiceId)[1]]

\* foundEncounter.choices.findIndex(c => c.id === choiceId), 0-based
ChoiceIndex(encounter, choiceId) ==
    IF \E i \in DOMAIN encounter.choices : encounter.choices[i].id = choiceId
    THEN (CHOOSE i \in DOMAIN encounter.choices :
            /\ encounter.choices[i].id = choiceId
            /\ \A j \in 1..(i - 1) : encounter.choices[j].id # choiceId) - 1
    ELSE -1

\* a ledger entry that records the gate-filtered choices of the encounter
LedgerEntry_GateFiltered(encounter, choice, choiceId, frame) ==
    [frame |-> frame,
     encounterId |-> encounter.id,
     choiceId |-> choice.id,
     availableChoices |-> GetAvailableChoices(encounter.id, variables, None),
     choiceIndex |-> ChoiceIndex(encounter, choiceId)]

\* the ledger entry pushed by processChoice
LedgerEntry(encounter, choice, choiceId, frame) ==
    [frame |-> frame,
     encounterId |-> encounter.id,
     choiceId |-> choice.id,
     availableChoices |->
        [i \in DOMAIN encounter.choices |-> encounter.choices[i].id],
     choiceIndex |-> ChoiceIndex(encounter, choiceId)]

\* the mutation loop of processChoice from mutation i on; a mutation that
\* throws ends the loop and leaves what was done before it
RECURSIVE ApplyMutations(_, _, _, _, _)
ApplyMutations(muts, i, vs, evts, agentId) ==
    IF i > Len(muts) THEN [variables |-> vs, events |-> evts, threw |-> FALSE]
    ELSE IF MutationThrows(vs, muts[i])
    THEN [variables |-> vs, events |-> evts, threw |-> TRUE]
    ELSE ApplyMutations(muts, i + 1,
             ApplyMutation(vs, muts[i], agentId, wsFrame),
             EmitEvent(evts, "STATE", "VARIABLE_CHANGED",
                       Payload(muts[i].variableId, muts[i].operation,
                               muts[i].value, FALSE, 0),
                       agentId, currentFrame),
             agentId)

SpoolById(id) ==
    LET hits == SelectSeq(StorySpools, LAMBDA sp : sp.id = id)
    IN  IF hits = <<>>
        THEN [id |-> None, entryGateId |-> None, entryEncounterId |-> None]
        ELSE hits[1]

\* enterSpool storing the new entry alone instead of appending it
EnterSpool_Replace(sp, evts, agentId, spoolId) ==
    IF SpoolById(spoolId).id = None
    THEN [spoolProgress |-> sp, events |-> evts]
    ELSE [spoolProgress |->
             [sp EXCEPT ![agentId] =
                 << [spoolId |-> spoolId, agentId |-> agentId,
                     status |-> "ACTIVE",
                     currentEncounterId |->
                        SpoolById(spoolId).entryEncounterId,
                     enteredAtFrame |-> currentFrame,
                     completedAtFrame |-> -1,
                     choiceHistory |-> <<>>] >>],
          events |-> EmitEvent(evts, "NARRATIVE", "SPOOL_ENTERED",
                               Payload(spoolId, None, Undef, FALSE, 0),
                               agentId, currentFrame)]

\* SimulationEngine.enterSpool
EnterSpool(sp, evts, agentId, spoolId) ==
    IF SpoolById(spoolId).id = None
    THEN [spoolProgress |-> sp, events |-> evts]
    ELSE [spoolProgress |->
             [sp EXCEPT ![agentId] = Append(@,
                 [spoolId |-> spoolId, agentId |-> agentId,
                  status |-> "ACTIVE",
                  currentEncounterId |-> SpoolById(spoolId).entryEncounterId,
                  enteredAtFrame |-> currentFrame,
                  completedAtFrame |-> -1,
                  choiceHistory |-> <<>>])],
          events |-> EmitEvent(evts, "NARRATIVE", "SPOOL_ENTERED",
                               Payload(spoolId, None, Undef, FALSE, 0),
                               agentId, currentFrame)]

\* completeSpool deleting the entries of the spool
CompleteSpool_Drop(sp, evts, agentId, spoolId) ==
    [spoolProgress |->
        [sp EXCEPT ![agentId] =
            SelectSeq(@, LAMBDA p : p.spoolId # spoolId)],
     events |-> EmitEvent(evts, "NARRATIVE", "SPOOL_COMPLETED",
                          Payload(spoolId, None, Undef, FALSE, 0),
                          agentId, currentFrame)]

\* SimulationEngine.completeSpool
CompleteSpool(sp, evts, agentId, spoolId) ==
    [spoolProgress |->
        [sp EXCEPT ![agentId] =
            [i \in DOMAIN @ |->
                IF @[i].spoolId = spoolId
                THEN [@[i] EXCEPT !.status = "COMPLETED",
                                  !.completedAtFrame = currentFrame]
                ELSE @[i]]],
     events |-> EmitEvent(evts, "NARRATIVE", "SPOOL_COMPLETED",
                          Payload(spoolId, None, Undef, FALSE, 0),
                          agentId, currentFrame)]

\* advanceToEncounter moving the ACTIVE entries of every agent
AdvanceToEncounter_Everyone(sp, evts, agentId, encounterId) ==
    [spoolProgress |->
        [a \in DOMAIN sp |->
            [i \in DOMAIN sp[a] |->
                IF sp[a][i].status = "ACTIVE"
                THEN [sp[a][i] EXCEPT !.currentEncounterId = encounterId]
                ELSE sp[a][i]]],
     events |-> EmitEvent(evts, "NARRATIVE", "ENCOUNTER_STARTED",
                          Payload(encounterId, None, Undef, FALSE, 0),
                          agentId, currentFrame)]

\* SimulationEngine.advanceToEncounter: every ACTIVE entry is moved
AdvanceToEncounter(sp, evts, agentId, encounterId) ==
    [spoolProgress |->
        [sp EXCEPT ![agentId] =
            [i \in DOMAIN @ |->
                IF @[i].status = "ACTIVE"
                THEN [@[i] EXCEPT !.currentEncounterId = encounterId]
                ELSE @[i]]],
     events |-> EmitEvent(evts, "NARRATIVE", "ENCOUNTER_STARTED",
                          Payload(encounterId, None, Undef, FALSE, 0),
                          agentId, currentFrame)]

\* the transition with the next spool tried before the next encounter
NarrativeTransition_SpoolFirst(sp, evts, agentId, encounter, choice) ==
    IF choice.isTerminal
    THEN CompleteSpool(sp, evts, agentId, encounter.spoolId)
    ELSE IF choice.nextSpoolId # None
    THEN EnterSpool(sp, evts, agentId, choice.nextSpoolId)
    ELSE IF choice.nextEncounterId # None
    THEN AdvanceToEncounter(sp, evts, agentId, choice.nextEncounterId)
    ELSE [spoolProgress |-> sp, events |-> evts]

\* the narrative transition at the end of processChoice
NarrativeTransition(sp, evts, agentId, encounter, choice) ==
    IF choice.isTerminal
    THEN CompleteSpool(sp, evts, agentId, encounter.spoolId)
    ELSE IF choice.nextEncounterId # None
    THEN AdvanceToEncounter(sp, evts, agentId, choice.nextEncounterId)
    ELSE IF choice.nextSpoolId # None
    THEN EnterSpool(sp, evts, agentId, choice.nextSpoolId)
    ELSE [spoolProgress |-> sp, events |-> evts]

\* processChoice without its not-found return
ChoiceFound_Always(found) == TRUE

\* processChoice: if (!foundChoice || !foundEncounter) is not taken
ChoiceFound(found) == found.encounter.id # None /\ found.choice.id # None

\* SimulationEngine.processChoice on the current state with log evts:
\* the state it leaves, and whether it threw
ProcessChoice(agentId, choiceId, evts) ==
    LET found == FindChoice(choiceId)
        ledger == [sessionData EXCEPT ![agentId] =
                      Append(@, LedgerEntry(found.encounter, found.choice,
                                            choiceId, currentFrame))]
        muts == ApplyMutations(found.choice.mutations, 1, variables, evts,
                               agentId)
        made == EmitEvent(muts.events, "NARRATIVE", "CHOICE_MADE",
                          Payload(found.choice.id, found.encounter.id, Undef,
                                  FALSE, 0),
                          agentId, currentFrame)
        moved == NarrativeTransition(spoolProgress, made, agentId,
                                     found.encounter, found.choice)
    IN  IF ~ChoiceFound(found)
        THEN [variables |-> variables, spoolProgress |-> spoolProgress,
              sessionData |-> sessionData, threw |-> FALSE,
              events |-> EmitEvent(evts, "SYSTEM", "INVALID_CHOICE",
                                   Payload(choiceId, None, Undef, FALSE, 0),
                                   agentId, currentFrame)]
        ELSE IF muts.threw
        THEN [variables |-> muts.variables, spoolProgress |-> spoolProgress,
              sessionData |-> ledger, threw |-> TRUE, events |-> muts.events]
        ELSE [variables |-> muts.variables,
              spoolProgress |-> moved.spoolProgress,
              sessionData |-> ledger, threw |-> FALSE,
              events |-> moved.events]

\* ------------------------------------------------------------------------
\* SimulationEngine: public operations and the steps of a frame
\* ------------------------------------------------------------------------
\* the choices without mutation and transition; the callbacks of the
\* budgeted runs leave them out
IdleChoices ==
    {c.id : c \in {d \in AllChoices :
                      /\ d.mutations = <<>>
                      /\ ~d.isTerminal
                      /\ d.nextEncounterId = None
                      /\ d.nextSpoolId = None}}

\* what a decision callback can do when awaited
CallbackOutcomes ==
    {[kind |-> k, choiceId |-> None, message |-> None] :
        k \in {"null", "throw", "timeout"}}
    \cup {[kind |-> "action", choiceId |-> c, message |-> m] :
            c \in (ChoiceIds \ IdleChoices) \cup {BogusChoice, None},
            m \in {None, "hello"}}

\* the inputs an outcome uses up
Cost(o) ==
    (IF o.choiceId # None THEN 1 ELSE 0)
    + (IF o.message # None THEN 1 ELSE 0)
    + (IF o.kind \in {"throw", "timeout"} THEN 1 ELSE 0)
WithinBudget(o) == budget + Cost(o) <= MaxInputs

\* index of the first active agent at or after position i
RECURSIVE NextActive(_)
NextActive(i) ==
    IF i > NumAgents THEN i
    ELSE IF isActive[Agents[i]] THEN i
    ELSE NextActive(i + 1)

\* config.snapshotInterval ?? 10
DefaultSnapshotInterval == 10

\* constructor with maxFrames drawn from frames and snapshotInterval from
\* intervals, addEventListener for each of handlers, loadStoryworld and
\* createSimulation
InitEngine(frames, handlers, intervals) ==
    /\ eventHandlers = handlers
    /\ snapshotInterval \in intervals
    /\ snapshotsTaken = <<>>
    /\ snapshotsSaved = <<>>
    /\ exported = <<>>
    /\ status = "INITIALIZING"
    /\ currentFrame = 0
    /\ maxFrames \in frames
    /\ isActive = SlotActive
    /\ wsFrame = 0
    /\ variables = InitializeVariables
    /\ spoolProgress = [a \in AgentIds |-> <<>>]
    /\ events = << Event("SYSTEM", "SIMULATION_CREATED",
                         Payload(None, None, Undef, FALSE, NumAgents),
                         None, 0) >>
    /\ sessionData = [a \in AgentIds |-> <<>>]
    /\ pc = "idle"
    /\ cidx = 0
    /\ agentViews = [a \in AgentIds |-> NoView]
    /\ actions = <<>>
    /\ ridx = 0
    /\ lastCall = [op |-> "createSimulation", result |-> "ok"]
    /\ pendingLate = {}
    /\ budget = 0
    /\ deliveries = DeliverNew(<<>>, events, 1)

Init == InitEngine(1..MaxFramesBound, <<>>, {DefaultSnapshotInterval})

\* start without its status check
StartAllowed_Always(st) == TRUE

\* the status check of start
StartAllowed(st) == st = "INITIALIZING"

\* executeFrame without its status check
ExecuteAllowed_Always(st) == TRUE

\* the status check of executeFrame
ExecuteAllowed(st) == st = "RUNNING"

\* the frame counter advanced once too often
NextFrame_Twice(f) == f + 2

\* this.simulation.currentFrame++
NextFrame(f) == f + 1

\* the completion check of executeFrame
MaxFramesReached(f) == f >= maxFrames

\* the resolution loop entered after the first callback
PhaseAfterCollect_Early(next) == "resolve"

\* the collection loop goes on until every active agent was asked
PhaseAfterCollect(next) ==
    IF next > NumAgents THEN "resolve" ELSE "collect"

\* SimulationEngine.start
Start ==
    /\ pc = "idle"
    /\ IF ~StartAllowed(status)
       THEN /\ lastCall' = [op |-> "start", result |-> "error"]
            /\ UNCHANGED << status, events >>
       ELSE /\ status' = "RUNNING"
            /\ events' = EmitEvent(events, "SYSTEM", "SIMULATION_STARTED",
                                   NoPayload, None, currentFrame)
            /\ lastCall' = [op |-> "start", result |-> "ok"]
    /\ UNCHANGED << currentFrame, maxFrames, isActive, wsFrame, variables,
                    spoolProgress, sessionData, pc, cidx, agentViews,
                    actions, ridx, pendingLate, budget >>
    /\ deliveries' = DeliverNew(deliveries, events', Len(events) + 1)
    /\ UNCHANGED << eventHandlers, exported, snapshotInterval,
                    snapshotsTaken, snapshotsSaved >>

\* SimulationEngine.complete, called by the user of the engine
Complete ==
    /\ pc = "idle"
    /\ budget < MaxInputs
    /\ budget' = budget + 1
    /\ status' = "COMPLETED"
    /\ events' = EmitEvent(events, "SYSTEM", "SIMULATION_COMPLETED",
                           NoPayload, None, currentFrame)
    /\ lastCall' = [op |-> "complete", result |-> "ok"]
    /\ UNCHANGED << currentFrame, maxFrames, isActive, wsFrame, variables,
                    spoolProgress, sessionData, pc, cidx, agentViews,
                    actions, ridx, pendingLate >>
    /\ deliveries' = DeliverNew(deliveries, events', Len(events) + 1)
    /\ UNCHANGED << eventHandlers, exported, snapshotInterval,
                    snapshotsTaken, snapshotsSaved >>

\* executeFrame up to its first await: the status check and the
\* observation stage
ExecuteFrame ==
    /\ pc = "idle"
    /\ IF ~ExecuteAllowed(status)
       THEN /\ lastCall' = [op |-> "executeFrame", result |-> "error"]
            /\ UNCHANGED << events, pc, cidx, agentViews, actions, ridx >>
       ELSE LET obs == Observation(1, events,
                                   [a \in AgentIds |-> NoView])
            IN  /\ events' = obs.events
                /\ agentViews' = obs.views
                /\ actions' = <<>>
                /\ cidx' = NextActive(1)
                /\ ridx' = 1
                /\ pc' = PhaseAfterCollect(NextActive(1))
                /\ lastCall' = [op |-> "executeFrame", result |-> "pending"]
    /\ UNCHANGED << status, currentFrame, maxFrames, isActive, wsFrame,
                    variables, spoolProgress, sessionData, pendingLate,
                    budget >>
    /\ deliveries' = DeliverNew(deliveries, events', Len(events) + 1)
    /\ UNCHANGED << eventHandlers, exported, snapshotInterval,
                    snapshotsTaken, snapshotsSaved >>

\* a new action put in front of the collected ones
CollectedActions_Prepend(acts, o, a) ==
    IF o.kind = "action"
    THEN << [agentId |-> a, choiceId |-> o.choiceId,
             message |-> o.message] >> \o acts
    ELSE acts

\* the try block of the collection loop: if (action) actions.set(...)
CollectedActions(acts, o, a) ==
    IF o.kind = "action"
    THEN Append(acts, [agentId |-> a, choiceId |-> o.choiceId,
                       message |-> o.message])
    ELSE acts

\* a catch block that records thrown errors but not timeouts
CollectedEvents_Silent(evts, o, a) ==
    IF o.kind = "throw"
    THEN EmitEvent(evts, "SYSTEM", "AGENT_ERROR",
                   Payload(a, "thrown", Undef, FALSE, 0), a, currentFrame)
    ELSE evts

\* the catch block of the collection loop
CollectedEvents(evts, o, a) ==
    IF o.kind \in {"throw", "timeout"}
    THEN EmitEvent(evts, "SYSTEM", "AGENT_ERROR",
                   Payload(a, IF o.kind = "timeout" THEN "Timeout"
                              ELSE "thrown", Undef, FALSE, 0),
                   a, currentFrame)
    ELSE evts

\* the awaited race of one agent's callback against the timeout settles
Collect(o) ==
    /\ pc = "collect"
    /\ LET a == Agents[cidx]
       IN  /\ actions' = CollectedActions(actions, o, a)
           /\ events' = CollectedEvents(events, o, a)
           /\ pendingLate' = IF o.kind = "timeout"
                             THEN pendingLate \cup {a} ELSE pendingLate
    /\ budget' = budget + Cost(o)
    /\ cidx' = NextActive(cidx + 1)
    /\ pc' = PhaseAfterCollect(NextActive(cidx + 1))
    /\ UNCHANGED << status, currentFrame, maxFrames, isActive, wsFrame,
                    variables, spoolProgress, sessionData, agentViews, ridx,
                    lastCall >>
    /\ deliveries' = DeliverNew(deliveries, events', Len(events) + 1)
    /\ UNCHANGED << eventHandlers, exported, snapshotInterval,
                    snapshotsTaken, snapshotsSaved >>

\* a callback that lost the race answers: nobody awaits its promise (the
\* resolution and transition stages run to completion without an await)
LateAnswer(a) ==
    /\ a \in pendingLate
    /\ pc # "resolve"
    /\ pendingLate' = pendingLate \ {a}
    /\ UNCHANGED << status, currentFrame, maxFrames, isActive, wsFrame,
                    variables, spoolProgress, events, sessionData, pc, cidx,
                    agentViews, actions, ridx, lastCall, budget,
                    eventHandlers, deliveries, exported, snapshotInterval,
                    snapshotsTaken, snapshotsSaved >>

\* one iteration of the resolution loop; a throw of processChoice leaves
\* executeFrame
Resolve ==
    /\ pc = "resolve"
    /\ ridx <= Len(actions)
    /\ LET act == actions[ridx]
           res == IF act.choiceId # None
                  THEN ProcessChoice(act.agentId, act.choiceId, events)
                  ELSE [variables |-> variables,
                        spoolProgress |-> spoolProgress,
                        sessionData |-> sessionData, threw |-> FALSE,
                        events |-> events]
       IN  /\ variables' = res.variables
           /\ spoolProgress' = res.spoolProgress
           /\ sessionData' = res.sessionData
           /\ IF res.threw
              THEN /\ events' = res.events
                   /\ pc' = "idle"
                   /\ lastCall' = [op |-> "executeFrame", result |-> "threw"]
                   /\ UNCHANGED ridx
              ELSE /\ events' = IF act.message # None
                                THEN EmitEvent(res.events, "COMMUNICATION",
                                         "MESSAGE_SENT",
                                         Payload(act.message, "NARRATIVE",
                                                 Undef, FALSE, 0),
                                         act.agentId, currentFrame)
                                ELSE res.events
                   /\ ridx' = ridx + 1
                   /\ UNCHANGED << pc, lastCall >>
    /\ UNCHANGED << status, currentFrame, maxFrames, isActive, wsFrame,
                    cidx, agentViews, actions, pendingLate, budget >>
    /\ deliveries' = DeliverNew(deliveries, events', Len(events) + 1)
    /\ UNCHANGED << eventHandlers, exported, snapshotInterval,
                    snapshotsTaken, snapshotsSaved >>

\* the snapshot check of executeFrame for the new frame number f
SnapshotDue(f) == snapshotInterval > 0 /\ f % snapshotInterval = 0

\* SimulationEngine.takeSnapshot at frame f
TakeSnapshot(f) ==
    [frame |-> f,
     variableStates |->
        [i \in DOMAIN GetAllVariables(variables) |->
            [variableId |-> GetAllVariables(variables)[i].variableId,
             value |-> GetAllVariables(variables)[i].value]],
     agentStates |->
        [i \in 1..NumAgents |->
            LET sp == spoolProgress[Agents[i]]
                set == SelectSeq(sp, LAMBDA p : p.currentEncounterId # None)
            IN  [agentId |-> Agents[i],
                 activeSpools |-> [k \in DOMAIN sp |-> sp[k].spoolId],
                 currentEncounter |->
                    IF set = <<>> THEN None
                    ELSE set[1].currentEncounterId]]]

\* the rest of executeFrame: transition, completion check, snapshot check;
\* takeSnapshot builds a value that executeFrame drops, so nothing reaches
\* the persistence collaborator
FrameTransition ==
    /\ pc = "resolve"
    /\ ridx > Len(actions)
    /\ wsFrame' = wsFrame + 1
    /\ currentFrame' = NextFrame(currentFrame)
    /\ IF MaxFramesReached(NextFrame(currentFrame))
       THEN /\ status' = "COMPLETED"
            /\ events' = EmitEvent(events, "SYSTEM", "SIMULATION_COMPLETED",
                                   Payload("Max frames reached", None, Undef,
                                           FALSE, 0),
                                   None, NextFrame(currentFrame))
       ELSE UNCHANGED << status, events >>
    /\ pc' = "idle"
    /\ lastCall' = [op |-> "executeFrame", result |-> "ok"]
    /\ UNCHANGED << maxFrames, isActive, variables, spoolProgress,
                    sessionData, cidx, agentViews, actions, ridx,
                    pendingLate, budget >>
    /\ deliveries' = DeliverNew(deliveries, events', Len(events) + 1)
    /\ snapshotsTaken' =
          IF SnapshotDue(NextFrame(currentFrame))
          THEN Append(snapshotsTaken, TakeSnapshot(NextFrame(currentFrame)))
          ELSE snapshotsTaken
    /\ UNCHANGED << eventHandlers, exported, snapshotInterval,
                    snapshotsSaved >>

Next ==
    \/ Start
    \/ Complete
    \/ ExecuteFrame
    \/ \E o \in CallbackOutcomes : WithinBudget(o) /\ Collect(o)
    \/ \E a \in AgentIds : LateAnswer(a)
    \/ Resolve
    \/ FrameTransition

Spec == Init /\ [][Next]_vars

\* ------------------------------------------------------------------------
\* Long runs: one more frame than MaxFramesBound and talkative agents, so
\* that an agent's own events outnumber the history window
\* ------------------------------------------------------------------------
LongOutcomes ==
    {[kind |-> "null", choiceId |-> None, message |-> None],
     [kind |-> "action", choiceId |-> "ally", message |-> "hello"],
     [kind |-> "action", choiceId |-> "propose", message |-> "hello"]}

InitLong ==
    InitEngine({MaxFramesBound + 1}, <<>>, {DefaultSnapshotInterval})

NextLong ==
    \/ Start
    \/ ExecuteFrame
    \/ \E o \in LongOutcomes : Collect(o)
    \/ Resolve
    \/ FrameTransition

SpecLong == InitLong /\ [][NextLong]_vars

\* ------------------------------------------------------------------------
\* The driver loop of the README: start(), then executeFrame while the
\* status is RUNNING, then one more executeFrame; an exception ends it
\* ------------------------------------------------------------------------
DriverStart ==
    /\ lastCall.op = "createSimulation"
    /\ Start

DriverExecuteFrame ==
    /\ lastCall.op # "createSimulation"
    /\ lastCall.result = "ok"
    /\ ExecuteFrame

NextDriver ==
    \/ DriverStart
    \/ DriverExecuteFrame
    \/ \E o \in CallbackOutcomes : WithinBudget(o) /\ Collect(o)
    \/ \E a \in AgentIds : LateAnswer(a)
    \/ Resolve
    \/ FrameTransition

SpecDriver == Init /\ [][NextDriver]_vars

\* the driver made its last call
DriverStopped ==
    /\ pc = "idle"
    /\ lastCall.op = "executeFrame"
    /\ lastCall.result \in {"error", "threw"}

\* ------------------------------------------------------------------------
\* Properties
\* ------------------------------------------------------------------------
\* the observation stage of executeFrame is this step
ObservationStep == pc = "idle" /\ pc' # "idle"

\* the events agent a may witness: its own and those without an actor
OwnOrGlobal(a, evts) ==
    SelectSeq(evts, LAMBDA e : e.actorId = a \/ e.actorId = None)

\* C1: epistemic isolation.  At every frame the view delivered to agent a
\* holds the SpoolProgress list of a and of no other agent, and its recent
\* history is the summary of the last 10 events whose actor is a or that
\* have no actor; no view ever holds a SpoolProgress of another agent or
\* more than 10 history entries.
C1_EpistemicIsolation ==
    [][ /\ \A a \in AgentIds :
            LET v == agentViews'[a]
            IN  v.agentId # None =>
                  /\ v.agentId = a
                  /\ Len(v.recentHistory) <= RecentWindow
                  /\ \A i \in DOMAIN v.activeSpools :
                        v.activeSpools[i].agentId = a
        /\ ObservationStep =>
             \A a \in AgentIds :
                isActive[a] =>
                  LET v == agentViews'[a]
                      src == SliceLast(OwnOrGlobal(a, events), RecentWindow)
                  IN  /\ v.activeSpools = spoolProgress[a]
                      /\ v.recentHistory =
                            [i \in DOMAIN src |-> HistoryEntry(src[i])]
      ]_vars

\* a1 holds a view cut to 10 history entries out of more, built after a3
\* entered a spool
C1_Witness ==
    LET v == agentViews["a1"]
    IN  /\ v.agentId = "a1"
        /\ v.activeSpools # <<>>
        /\ Len(v.recentHistory) = RecentWindow
        /\ Len(SelectSeq(OwnOrGlobal("a1", events),
                         LAMBDA e : e.frame < v.frame)) > RecentWindow
        /\ spoolProgress["a3"] # <<>>
        /\ \E i \in DOMAIN events :
              /\ events[i].actorId = "a3"
              /\ events[i].eventType = "SPOOL_ENTERED"
              /\ events[i].frame < v.frame

\* the declared variables of scope GLOBAL or AGENT
ScopeVisibleIds ==
    {v.id : v \in {w \in Range(StoryVariables) :
                      w.scope \in {"GLOBAL", "AGENT"}}}

C3_FrameMonotonic ==
    [][ /\ currentFrame' >= currentFrame
        /\ (lastCall.result = "pending" /\ lastCall'.result = "ok")
              => currentFrame' = currentFrame + 1
        /\ currentFrame' # currentFrame
              => /\ currentFrame' = currentFrame + 1
                 /\ lastCall.result = "pending"
                 /\ lastCall' = [op |-> "executeFrame", result |-> "ok"]
      ]_vars

\* two executeFrame calls returned
C3_Witness ==
    /\ currentFrame = 2
    /\ lastCall = [op |-> "executeFrame", result |-> "ok"]

\* a public call is made in this step (the engine is between frames)
CallStep == pc = "idle" /\ pendingLate' = pendingLate

\* C4: start() succeeds only from INITIALIZING and executeFrame only from
\* RUNNING; a call in another status fails and leaves the status, the
\* frame counters, the World State, the ledgers and the event log
\* unchanged and invokes no callback.
C4_InvalidCallsFail ==
    [][ /\ (CallStep /\ lastCall'.op = "start" /\ status # "INITIALIZING")
              => /\ lastCall'.result = "error"
                 /\ UNCHANGED << simState, pc, cidx, agentViews, actions >>
        /\ (CallStep /\ lastCall'.op = "executeFrame" /\ status # "RUNNING")
              => /\ lastCall'.result = "error"
                 /\ UNCHANGED << simState, pc, cidx, agentViews, actions >>
        /\ (CallStep /\ lastCall'.op = "start" /\ lastCall'.result = "ok")
              => status = "INITIALIZING"
        /\ ObservationStep => status = "RUNNING"
      ]_vars

\* start() failed on a running simulation that has resolved a choice
C4_Witness ==
    /\ lastCall = [op |-> "start", result |-> "error"]
    /\ status = "RUNNING"
    /\ currentFrame >= 1
    /\ \E a \in AgentIds : sessionData[a] # <<>>

\* the edges of the status diagram
StatusEdges ==
    { <<"INITIALIZING", "RUNNING">>, <<"RUNNING", "PAUSED">>,
      <<"PAUSED", "RUNNING">>, <<"RUNNING", "COMPLETED">>,
      <<"RUNNING", "ABORTED">> }

\* C5: over any sequence of start(), executeFrame() and complete() the
\* status changes only along the edges of the diagram; COMPLETED is reached
\* only from RUNNING.
C5_StatusDiagram ==
    [][ status' # status => << status, status' >> \in StatusEdges ]_vars

\* the number of events of a type in the log
CountEvents(type) == Len(SelectSeq(events, LAMBDA e : e.eventType = type))

\* C6: the driver loop over a started simulation with maxFrames = N ends
\* with status COMPLETED after exactly N frames, one SIMULATION_COMPLETED
\* event, and a failing next executeFrame call.
C6_DriverCompletes ==
    DriverStopped =>
        /\ lastCall.result = "error"
        /\ status = "COMPLETED"
        /\ currentFrame = maxFrames
        /\ CountEvents("SIMULATION_COMPLETED") = 1

\* C7: a failing action of one agent never aborts the frame: once the
\* resolution stage has begun, executeFrame ends only by returning normally,
\* with every collected action resolved and the frame counter advanced.
C7_FailuresIsolated ==
    [][ (pc = "resolve" /\ pc' = "idle")
            => /\ lastCall'.result = "ok"
               /\ ridx > Len(actions)
               /\ currentFrame' = currentFrame + 1
      ]_vars

\* the events a step appends to the log
NewEvents == SubSeq(events', Len(events) + 1, Len(events'))
LogExtended ==
    /\ Len(events') >= Len(events)
    /\ SubSeq(events', 1, Len(events)) = events

\* the callback of Agents[cidx] throws or times out in this step
FailureStep == pc = "collect" /\ budget' > budget /\ actions' = actions

\* C8: when the callback of agent A throws or times out, exactly one
\* AGENT_ERROR event with actor A is emitted and A gets no entry among the
\* actions of the frame, so that the resolution stage, which acts for the
\* agents of the collected actions only, resolves nothing for A; a late
\* answer changes nothing; isActive never changes, and the next frame
\* builds a view for every active agent and awaits each of them.
C8_CallbackFailure ==
    [][ /\ isActive' = isActive
        /\ FailureStep =>
              /\ LogExtended
              /\ Len(NewEvents) = 1
              /\ NewEvents[1].eventType = "AGENT_ERROR"
              /\ NewEvents[1].actorId = Agents[cidx]
              /\ NewEvents[1].frame = currentFrame
              /\ UNCHANGED << status, currentFrame, wsFrame, variables,
                              spoolProgress, sessionData >>
        /\ (pc = "collect" /\ pendingLate \subseteq pendingLate') =>
              /\ isActive[Agents[cidx]]
              /\ cidx' > cidx
              /\ \A j \in (cidx + 1)..(cidx' - 1) :
                    j <= NumAgents => ~isActive[Agents[j]]
              /\ (pc' = "resolve") = (cidx' > NumAgents)
              /\ \/ actions' = actions
                 \/ /\ Len(actions') = Len(actions) + 1
                    /\ SubSeq(actions', 1, Len(actions)) = actions
                    /\ actions'[Len(actions')].agentId = Agents[cidx]
                    /\ events' = events
        /\ (pc = "resolve" /\ ridx <= Len(actions)) =>
              /\ actions' = actions
              /\ LogExtended
              /\ \A i \in DOMAIN NewEvents :
                    NewEvents[i].actorId = actions[ridx].agentId
        /\ (pendingLate' # pendingLate /\ pendingLate' \subseteq pendingLate)
              => UNCHANGED << simState, pc, cidx, agentViews, actions, ridx,
                              lastCall >>
        /\ ObservationStep =>
              /\ actions' = <<>>
              /\ \A a \in AgentIds : isActive[a] => agentViews'[a].agentId = a
              /\ \A j \in 1..(cidx' - 1) : ~isActive[Agents[j]]
      ]_vars

\* a1 timed out in frame 0 and has not answered yet; in frame 1 it holds a
\* new view and its callback is awaited
C8_Witness ==
    /\ pc = "collect"
    /\ Agents[cidx] = "a1"
    /\ agentViews["a1"].frame = 1
    /\ "a1" \in pendingLate
    /\ isActive["a1"]
    /\ \E i \in DOMAIN events :
          /\ events[i].eventType = "AGENT_ERROR"
          /\ events[i].actorId = "a1"
          /\ events[i].frame = 0

\* the action resolved in this step names a choice id of no encounter
InvalidChoiceStep ==
    /\ pc = "resolve"
    /\ ridx <= Len(actions)
    /\ actions[ridx].choiceId \notin ChoiceIds \cup {None}

\* C9: resolving a choice id found in no encounter emits exactly one
\* INVALID_CHOICE event and writes no variable, no SpoolProgress and no
\* ledger entry; the resolution loop goes on with the next action.
C9_InvalidChoice ==
    [][ InvalidChoiceStep =>
          /\ LogExtended
          /\ Len(NewEvents) =
                1 + (IF actions[ridx].message # None THEN 1 ELSE 0)
          /\ NewEvents[1].eventType = "INVALID_CHOICE"
          /\ NewEvents[1].actorId = actions[ridx].agentId
          /\ NewEvents[1].payload.ref = actions[ridx].choiceId
          /\ \A i \in 2..Len(NewEvents) :
                NewEvents[i].eventType = "MESSAGE_SENT"
          /\ UNCHANGED << status, currentFrame, wsFrame, variables,
                          spoolProgress, sessionData, actions >>
          /\ pc' = "resolve"
          /\ ridx' = ridx + 1
      ]_vars

\* an invalid choice of one agent, then a resolved choice of another agent
\* in the same frame
C9_Witness ==
    \E i, j \in DOMAIN events :
        /\ i < j
        /\ events[i].eventType = "INVALID_CHOICE"
        /\ events[j].eventType = "CHOICE_MADE"
        /\ events[j].frame = events[i].frame
        /\ events[j].actorId # events[i].actorId
        /\ lastCall = [op |-> "executeFrame", result |-> "ok"]
        /\ currentFrame = events[i].frame + 1

\* C10: choice-sequence completeness.  Every ledger entry lists the full
\* declared choice ids of its encounter in declaration order, its
\* choiceIndex is a valid index of that list, and the id at that index is
\* the entry's choiceId.
C10_LedgerComplete ==
    \A a \in AgentIds :
        \A i \in DOMAIN sessionData[a] :
            LET e == sessionData[a][i]
                enc == EncounterById(e.encounterId)
            IN  /\ enc.id # None
                /\ e.availableChoices =
                      [k \in DOMAIN enc.choices |-> enc.choices[k].id]
                /\ e.choiceIndex \in 0..(Len(e.availableChoices) - 1)
                /\ e.availableChoices[e.choiceIndex + 1] = e.choiceId

\* a ledger entry for the gated choice decline, whose gate is closed
C10_Witness ==
    /\ ~Evaluate("high_trust", variables)
    /\ \E a \in AgentIds :
          \E i \in DOMAIN sessionData[a] :
              /\ sessionData[a][i].choiceId = "decline"
              /\ sessionData[a][i].choiceIndex = 1

\* ------------------------------------------------------------------------
\* Agents that keep to their views: a callback returns nothing, or an
\* action whose choice, if any, is one of the availableChoices of the view
\* it was handed
\* ------------------------------------------------------------------------
ViewOutcomes(a) ==
    {[kind |-> "null", choiceId |-> None, message |-> None]}
    \cup {[kind |-> "action", choiceId |-> c, message |-> m] :
            c \in Range(agentViews[a].availableChoices) \cup {None},
            m \in {None, "hello"}}

\* the awaited callback of an agent that keeps to its view settles
CollectView ==
    /\ pc = "collect"
    /\ \E o \in ViewOutcomes(Agents[cidx]) : WithinBudget(o) /\ Collect(o)

NextView ==
    \/ Start
    \/ ExecuteFrame
    \/ CollectView
    \/ Resolve
    \/ FrameTransition

SpecView == InitEngine({MaxFramesBound, MaxFramesBound + 1}, <<>>,
                       {DefaultSnapshotInterval})
            /\ [][NextView]_vars

\* agent a holds an ACTIVE SpoolProgress for spoolId at its entry encounter
AtEntryOf(a, spoolId) ==
    \E i \in DOMAIN spoolProgress[a] :
        /\ spoolProgress[a][i].spoolId = spoolId
        /\ spoolProgress[a][i].status = "ACTIVE"
        /\ spoolProgress[a][i].currentEncounterId =
              SpoolById(spoolId).entryEncounterId

\* the only caller of enterSpool is processChoice, for the next-spool id of
\* a resolved choice, and a view without a current encounter offers no
\* choice: agents that keep to their views never get a SpoolProgress
NoSpoolEntered ==
    \A a \in AgentIds :
        /\ spoolProgress[a] = <<>>
        /\ agentViews[a].availableChoices = <<>>

\* C11: an agent can enter a spool that its view lists in availableSpools.
\* From a freshly started simulation in which no agent has a SpoolProgress,
\* an agent that submits only choices of the availableChoices of its own
\* views comes to hold an ACTIVE SpoolProgress for the listed spool at the
\* spool's entry encounter: stated for the runs of such agents that have
\* reached their last frame.
C11_CanEnterSpool ==
    (status = "COMPLETED" /\ pc = "idle") =>
        \E a \in AgentIds :
            /\ isActive[a]
            /\ AtEntryOf(a, "intro")

\* C12: a choice that has a required gate must pass it to be chosen.  The
\* mutations and the narrative transition of a choice are applied for an
\* agent in frame f only if the choice was among the availableChoices of
\* the view delivered to that agent in frame f.
C12_ChosenWasAvailable ==
    [][ ( /\ pc = "resolve"
          /\ ridx <= Len(actions)
          /\ \/ variables' # variables
             \/ spoolProgress' # spoolProgress
             \/ sessionData' # sessionData )
        => actions[ridx].choiceId \in
              Range(agentViews[actions[ridx].agentId].availableChoices)
      ]_vars

\* the entries of a view's recent history that stem from messages
MessageEntries(v) ==
    SelectSeq(v.recentHistory, LAMBDA h : h.event = "MESSAGE_SENT")

\* the MESSAGE_SENT events of agent a in a log
MessagesOf(a, evts) ==
    SelectSeq(evts, LAMBDA e : e.eventType = "MESSAGE_SENT" /\ e.actorId = a)

\* the action resolved in this step carries a message
MessageStep ==
    /\ pc = "resolve"
    /\ ridx <= Len(actions)
    /\ actions[ridx].message # None

\* C13: a message returned by the callback of agent A in frame f produces
\* exactly one COMMUNICATION event with actor A, emitted after A's choice of
\* that frame is resolved, and is delivered to no agent directly: no view
\* delivered to an agent B other than A contains the message or an entry
\* derived from its event.
C13_MessagePrivate ==
    [][ /\ MessageStep =>
              LET sent == SelectSeq(NewEvents,
                              LAMBDA e : e.category = "COMMUNICATION")
              IN  /\ LogExtended
                  /\ Len(sent) = 1
                  /\ sent[1].eventType = "MESSAGE_SENT"
                  /\ sent[1].actorId = actions[ridx].agentId
                  /\ sent[1].payload.ref = actions[ridx].message
                  /\ sent[1].frame = currentFrame
                  /\ NewEvents[Len(NewEvents)] = sent[1]
        /\ ~MessageStep =>
              \A i \in DOMAIN NewEvents :
                  NewEvents[i].category # "COMMUNICATION"
        /\ ObservationStep =>
              \A b \in AgentIds :
                  isActive[b] =>
                    LET v == agentViews'[b]
                    IN  /\ Len(MessageEntries(v))
                              <= Len(MessagesOf(b, events))
                        /\ \A i \in DOMAIN MessageEntries(v) :
                              \E j \in DOMAIN MessagesOf(b, events) :
                                  MessagesOf(b, events)[j].frame
                                      = MessageEntries(v)[i].frame
      ]_vars

\* the World State or a ledger is written in this step
StateWritten ==
    \/ variables' # variables
    \/ spoolProgress' # spoolProgress
    \/ sessionData' # sessionData

AgentIndex(a) == CHOOSE i \in 1..NumAgents : Agents[i] = a

\* C15: the actions collected in a frame are resolved in a fixed order, the
\* agent declaration order of the simulation, whatever the order or time in
\* which the callbacks answered: the collected actions stand in declaration
\* order, the resolution loop takes them one by one from the first, each
\* step acting for the agent of its entry only, and a late answer changes
\* neither the actions nor the state.
C15_ResolutionOrder ==
    [][ /\ \A i, j \in DOMAIN actions' :
              i < j => AgentIndex(actions'[i].agentId)
                          < AgentIndex(actions'[j].agentId)
        /\ ObservationStep => ridx' = 1
        /\ (pc = "resolve" /\ ridx <= Len(actions)) =>
              /\ actions' = actions
              /\ ridx' = ridx + 1 \/ lastCall'.result = "threw"
              /\ \A i \in DOMAIN NewEvents :
                    NewEvents[i].actorId = actions[ridx].agentId
              /\ \A a \in AgentIds \ {actions[ridx].agentId} :
                    /\ sessionData'[a] = sessionData[a]
                    /\ spoolProgress'[a] = spoolProgress[a]
        /\ pc # "resolve" => ridx' = ridx \/ ObservationStep
        /\ (pendingLate' # pendingLate /\ pendingLate' \subseteq pendingLate)
              => UNCHANGED << simState, actions, ridx >>
      ]_vars

\* both agents chose in this frame; the choice of a1, declared first, is
\* resolved and the choice of a3 is next
C15_Witness ==
    /\ pc = "resolve"
    /\ Len(actions) = 2
    /\ ridx = 2
    /\ actions[1].agentId = "a1"
    /\ actions[2].agentId = "a3"
    /\ actions[1].choiceId = "propose"
    /\ actions[2].choiceId = "propose"
    /\ Len(sessionData["a1"]) = 1
    /\ sessionData["a3"] = <<>>

\* C16: in every reachable state each agent's SpoolProgress list holds at
\* most one entry per spool id: no sequence of resolved choices, a choice
\* whose next-spool id names a spool the agent already entered or completed
\* included, creates a second entry for the same agent and spool.
C16_UniqueSpoolProgress ==
    \A a \in AgentIds :
        \A i, j \in DOMAIN spoolProgress[a] :
            i # j => spoolProgress[a][i].spoolId # spoolProgress[a][j].spoolId

\* ------------------------------------------------------------------------
\* Session export
\* ------------------------------------------------------------------------
\* the values uuid() can return
Uuids == {"u1", "u2"}

\* one element of the list exportSessionOutcomes builds; choiceSequence is
\* the ledger array of the engine itself and holds, here, what that array
\* held when the call returned
Outcome(a, sid) ==
    [sessionId |-> sid,
     agentId |-> a,
     startFrame |-> 0,
     endFrame |-> currentFrame,
     totalChoices |-> Len(sessionData[a]),
     spoolsEntered |->
        [i \in DOMAIN spoolProgress[a] |-> spoolProgress[a][i].spoolId],
     spoolsCompleted |->
        LET done == SelectSeq(spoolProgress[a],
                              LAMBDA p : p.status = "COMPLETED")
        IN  [i \in DOMAIN done |-> done[i].spoolId],
     endingsReached |-> <<>>,
     finalVariableState |-> GetAllVariables(variables),
     choiceSequence |-> sessionData[a]]

\* SimulationEngine.exportSessionOutcomes, called between frames; at is
\* the length of the event log when it returned
ExportSessionOutcomes ==
    /\ pc = "idle"
    /\ budget < MaxInputs
    /\ budget' = budget + 1
    /\ \E ids \in [AgentIds -> Uuids] :
          exported' = Append(exported,
              [at |-> Len(events),
               outcomes |-> [i \in 1..NumAgents |->
                                Outcome(Agents[i], ids[Agents[i]])]])
    /\ lastCall' = [op |-> "exportSessionOutcomes", result |-> "ok"]
    /\ UNCHANGED << status, currentFrame, maxFrames, isActive, wsFrame,
                    variables, spoolProgress, events, sessionData, pc, cidx,
                    agentViews, actions, ridx, pendingLate, eventHandlers,
                    deliveries, snapshotInterval, snapshotsTaken,
                    snapshotsSaved >>

\* what the holder of an exported outcome reads now as its choiceSequence:
\* the array is shared with the engine, which pushes every new ledger
\* entry on it
HeldChoiceSequence(o) == sessionData[o.agentId]

\* the answers of the callbacks in the runs with exports
ExportOutcomes ==
    {[kind |-> "null", choiceId |-> None, message |-> None],
     [kind |-> "action", choiceId |-> "propose", message |-> None],
     [kind |-> "action", choiceId |-> "ally", message |-> None]}

NextExport ==
    \/ Start
    \/ ExecuteFrame
    \/ \E o \in ExportOutcomes : WithinBudget(o) /\ Collect(o)
    \/ Resolve
    \/ FrameTransition
    \/ ExportSessionOutcomes

SpecExport == Init /\ [][NextExport]_vars

\* C17: session export is idempotent.  Two calls of exportSessionOutcomes
\* with no frame executed in between return identical lists of
\* SessionOutcome, field for field, including sessionId.
C17_ExportIdempotent ==
    \A i, j \in DOMAIN exported :
        exported[i].at = exported[j].at
            => exported[i].outcomes = exported[j].outcomes

\* C18: a SessionOutcome returned by exportSessionOutcomes is never mutated
\* afterward: its choiceSequence, totalChoices, spoolsEntered,
\* spoolsCompleted and finalVariableState keep the values they had at
\* export time whatever the engine does later.
C18_OutcomeFrozen ==
    \A i \in DOMAIN exported :
        \A k \in DOMAIN exported[i].outcomes :
            LET o == exported[i].outcomes[k]
            IN  /\ HeldChoiceSequence(o) = o.choiceSequence
                /\ Len(HeldChoiceSequence(o)) = o.totalChoices

\* the choice has mutations, all of them on ids without a VariableState
UndeclaredOnly(choiceId) ==
    LET c == FindChoice(choiceId).choice
    IN  /\ c.id # None
        /\ c.mutations # <<>>
        /\ \A i \in DOMAIN c.mutations :
              c.mutations[i].variableId \notin DOMAIN variables

\* the ids that have a VariableState are the declared ones, one state each
DeclaredStates(vs) ==
    /\ DOMAIN vs = DeclaredVarIds
    /\ \A id \in DOMAIN vs : vs[id].variableId = id

\* C19: in every reachable state of a World State the set of variable ids
\* that have a VariableState equals the set of declared Variable ids, with
\* exactly one state each; applyMutation on an id that has no VariableState
\* is a no-op that creates no state and changes no existing one.
C19_DeclaredVariables ==
    [][ /\ DeclaredStates(variables)
        /\ DeclaredStates(variables')
        /\ ( /\ pc = "resolve"
             /\ ridx <= Len(actions)
             /\ UndeclaredOnly(actions[ridx].choiceId) )
           => variables' = variables
      ]_vars

\* the choice sign, whose mutation sets the undeclared variable ghost, was
\* resolved after other choices had written declared variables
C19_Witness ==
    /\ variables["trust"].modifiedBy # None
    /\ \E i \in DOMAIN events :
          /\ events[i].eventType = "CHOICE_MADE"
          /\ events[i].payload.ref = "sign"
          /\ \E j \in DOMAIN events :
                /\ j < i
                /\ events[j].eventType = "VARIABLE_CHANGED"
                /\ events[j].payload.ref = "ghost"

\* ------------------------------------------------------------------------
\* An engine with event handlers, registered before createSimulation as
\* createStoryforge does
\* ------------------------------------------------------------------------
HandlerOutcomes ==
    {[kind |-> "null", choiceId |-> None, message |-> None],
     [kind |-> "throw", choiceId |-> None, message |-> None],
     [kind |-> "action", choiceId |-> "propose", message |-> "hello"],
     [kind |-> "action", choiceId |-> "ally", message |-> None],
     [kind |-> "action", choiceId |-> BogusChoice, message |-> None]}

InitHandlers ==
    InitEngine(1..MaxFramesBound, RegisteredHandlers,
               {DefaultSnapshotInterval})

NextHandlers ==
    \/ Start
    \/ Complete
    \/ ExecuteFrame
    \/ \E o \in HandlerOutcomes : WithinBudget(o) /\ Collect(o)
    \/ Resolve
    \/ FrameTransition

SpecHandlers == InitHandlers /\ [][NextHandlers]_vars

\* the handler calls of a log: for each event in emission order, one call
\* of each handler in registration order
CallsFor(evts) ==
    LET H == Len(eventHandlers)
    IN  [i \in 1..(Len(evts) * H) |->
            [handler |-> eventHandlers[((i - 1) % H) + 1],
             index |-> ((i - 1) \div H) + 1,
             eventType |-> evts[((i - 1) \div H) + 1].eventType]]

\* C20: every event the engine emits is delivered synchronously to every
\* registered event handler exactly once, in emission order and before the
\* next event is emitted; a handler that throws prevents neither the event
\* from being kept in the log, nor its delivery to the remaining handlers,
\* nor the completion of the frame.
C20_HandlersCalled ==
    [][ /\ LogExtended
        /\ deliveries' = CallsFor(events')
        /\ SubSeq(deliveries', 1, Len(deliveries)) = deliveries
        /\ (pc = "resolve" /\ ridx > Len(actions)) =>
              /\ pc' = "idle"
              /\ lastCall' = [op |-> "executeFrame", result |-> "ok"]
              /\ currentFrame' = currentFrame + 1
      ]_vars

\* a frame with a resolved choice has returned; the first handler threw on
\* CHOICE_MADE and the second was called with the same event right after
C20_Witness ==
    /\ eventHandlers = RegisteredHandlers
    /\ HandlerThrows(eventHandlers[1])
    /\ lastCall = [op |-> "executeFrame", result |-> "ok"]
    /\ currentFrame >= 1
    /\ \E i \in DOMAIN deliveries :
          /\ i < Len(deliveries)
          /\ deliveries[i].handler = "h1"
          /\ deliveries[i].eventType = "CHOICE_MADE"
          /\ deliveries[i + 1].handler = "h2"
          /\ deliveries[i + 1].index = deliveries[i].index
          /\ events[deliveries[i].index].eventType = "CHOICE_MADE"

\* ------------------------------------------------------------------------
\* Engines configured with a snapshot interval
\* ------------------------------------------------------------------------
SnapshotIntervals == 0..MaxFramesBound

InitSnapshot == InitEngine(1..MaxFramesBound, <<>>, SnapshotIntervals)

NextSnapshot ==
    \/ Start
    \/ ExecuteFrame
    \/ \E o \in ExportOutcomes : WithinBudget(o) /\ Collect(o)
    \/ Resolve
    \/ FrameTransition

SpecSnapshot == InitSnapshot /\ [][NextSnapshot]_vars

\* C21: after the transition of each frame, if the snapshot interval is
\* positive and divides the new frame number, a state snapshot of that
\* frame (all variable values and each agent's active spools) is captured
\* and handed to the persistence collaborator; for any other frame no
\* snapshot is taken.
C21_SnapshotSaved ==
    [][ currentFrame' # currentFrame =>
          IF snapshotInterval > 0 /\ currentFrame' % snapshotInterval = 0
          THEN /\ Len(snapshotsSaved') = Len(snapshotsSaved) + 1
               /\ LET snap == snapshotsSaved'[Len(snapshotsSaved')]
                  IN  /\ snap.frame = currentFrame'
                      /\ \A id \in DOMAIN variables :
                            \E i \in DOMAIN snap.variableStates :
                                /\ snap.variableStates[i].variableId = id
                                /\ snap.variableStates[i].value
                                      = variables[id].value
                      /\ \A a \in AgentIds :
                            \E i \in DOMAIN snap.agentStates :
                                /\ snap.agentStates[i].agentId = a
                                /\ Len(snap.agentStates[i].activeSpools)
                                      = Len(spoolProgress[a])
          ELSE /\ snapshotsSaved' = snapshotsSaved
               /\ snapshotsTaken' = snapshotsTaken
      ]_vars

\* the gates whose condition is structurally invalid: a NOT without child
\* or an operator that is not a GateOperator
GateOperators ==
    {"EQ", "NEQ", "GT", "GTE", "LT", "LTE", "CONTAINS", "NOT_CONTAINS",
     "AND", "OR", "NOT", "EXISTS", "NOT_EXISTS"}
RECURSIVE Malformed(_)
Malformed(cond) ==
    \/ cond.operator \notin GateOperators
    \/ cond.operator = "NOT" /\ cond.children = <<>>
    \/ \E i \in DOMAIN cond.children : Malformed(cond.children[i])
MalformedGates ==
    {g.id : g \in {h \in Range(StoryGates) : Malformed(h.condition)}}

\* C22: evaluating a structurally invalid gate condition fails with
\* MalformedGate rather than returning a value: a NOT node with no child
\* and a node with an unknown operator never evaluate to true, so that no
\* view lists a spool or a choice gated by them.
C22_MalformedGateFails ==
    \A a \in AgentIds :
        /\ \A i \in DOMAIN agentViews[a].availableSpools :
              SpoolById(agentViews[a].availableSpools[i]).entryGateId
                  \notin MalformedGates
        /\ \A i \in DOMAIN agentViews[a].availableChoices :
              \A c \in AllChoices :
                  c.id = agentViews[a].availableChoices[i]
                      => c.gateId \notin MalformedGates

\* ------------------------------------------------------------------------
\* Runs over the narrative: callbacks answer with nothing or with one
\* choice of the storyworld, for one frame more than MaxFramesBound
\* ------------------------------------------------------------------------
StoryOutcomes ==
    {[kind |-> "null", choiceId |-> None, message |-> None]}
    \cup {[kind |-> "action", choiceId |-> c, message |-> None] :
            c \in ChoiceIds}

InitStory ==
    InitEngine({MaxFramesBound + 1}, <<>>, {DefaultSnapshotInterval})

NextStory ==
    \/ Start
    \/ ExecuteFrame
    \/ \E o \in StoryOutcomes : WithinBudget(o) /\ Collect(o)
    \/ Resolve
    \/ FrameTransition

SpecStory == InitStory /\ [][NextStory]_vars

\* no variable was written since the view v was built
UnwrittenSince(v) ==
    \A id \in DOMAIN variables :
        \/ variables[id].modifiedBy = None
        \/ variables[id].lastModifiedFrame < v.frame

\* C23: gate evaluation and view construction are pure.  Building the
\* views leaves every variable state, every SpoolProgress list, the frame
\* counters and the events already in the log unchanged, and gates
\* evaluated again on an unchanged World State give the same results: the
\* new view of an agent offers the spools, encounter and choices of its
\* previous view.
C23_PureObservation ==
    [][ ObservationStep =>
          /\ UNCHANGED << variables, spoolProgress, wsFrame, currentFrame,
                          sessionData >>
          /\ LogExtended
          /\ \A i \in DOMAIN NewEvents :
                NewEvents[i].eventType = "VIEW_DELIVERED"
          /\ \A a \in AgentIds :
                ( /\ isActive[a]
                  /\ agentViews[a].agentId = a
                  /\ agentViews[a].activeSpools = spoolProgress[a]
                  /\ UnwrittenSince(agentViews[a]) )
                => /\ agentViews'[a].availableSpools
                         = agentViews[a].availableSpools
                   /\ agentViews'[a].currentEncounter
                         = agentViews[a].currentEncounter
                   /\ agentViews'[a].availableChoices
                         = agentViews[a].availableChoices
                   /\ agentViews'[a].visibleVariables
                         = agentViews[a].visibleVariables
      ]_vars

\* a view of the third frame, built on the World State that the view of
\* the second frame was built on: trust was raised in the first frame and
\* the gated spool is listed
C23_Witness ==
    \E a \in AgentIds :
        /\ agentViews[a].agentId = a
        /\ agentViews[a].frame = 2
        /\ variables["trust"].value = Num(2)
        /\ variables["trust"].lastModifiedFrame = 0
        /\ UnwrittenSince([frame |-> 1])
        /\ \E i \in DOMAIN agentViews[a].availableSpools :
              agentViews[a].availableSpools[i] = "alliance"

\* a found choice is resolved in this step and processChoice returns
ChoiceStep ==
    /\ pc = "resolve"
    /\ ridx <= Len(actions)
    /\ actions[ridx].choiceId # None
    /\ ChoiceFound(FindChoice(actions[ridx].choiceId))
    /\ lastCall'.result # "threw"

\* positions, among the events of this step, of the events of the types
TypedAt(types) == {i \in DOMAIN NewEvents : NewEvents[i].eventType \in types}
TransitionTypes == {"SPOOL_COMPLETED", "ENCOUNTER_STARTED", "SPOOL_ENTERED"}

\* C24: after the mutations and the CHOICE_MADE event a resolved choice
\* triggers at most one narrative transition, chosen by priority.  A
\* terminal choice marks the owning spool of its encounter COMPLETED for
\* the choosing agent with completedAtFrame the current frame and emits
\* SPOOL_COMPLETED, its next-encounter and next-spool ids being ignored;
\* otherwise a next-encounter id takes precedence over a next-spool id; a
\* choice with none of the three changes no SpoolProgress.
C24_TransitionPriority ==
    [][ ChoiceStep =>
          LET a == actions[ridx].agentId
              found == FindChoice(actions[ridx].choiceId)
              c == found.choice
              tr == TypedAt(TransitionTypes)
              kind == IF c.isTerminal THEN "SPOOL_COMPLETED"
                      ELSE IF c.nextEncounterId # None
                      THEN "ENCOUNTER_STARTED"
                      ELSE IF c.nextSpoolId # None THEN "SPOOL_ENTERED"
                      ELSE None
          IN  /\ LogExtended
              /\ Cardinality(tr) = (IF kind = None THEN 0 ELSE 1)
              /\ \A i \in tr :
                    /\ NewEvents[i].eventType = kind
                    /\ NewEvents[i].actorId = a
                    /\ \A j \in TypedAt({"CHOICE_MADE", "VARIABLE_CHANGED"}) :
                          j < i
              /\ \A b \in AgentIds \ {a} :
                    spoolProgress'[b] = spoolProgress[b]
              /\ kind = "SPOOL_COMPLETED" =>
                    /\ \A i \in tr :
                          NewEvents[i].payload.ref = found.encounter.spoolId
                    /\ spoolProgress'[a] =
                          [i \in DOMAIN spoolProgress[a] |->
                              IF spoolProgress[a][i].spoolId
                                    = found.encounter.spoolId
                              THEN [spoolProgress[a][i] EXCEPT
                                       !.status = "COMPLETED",
                                       !.completedAtFrame = currentFrame]
                              ELSE spoolProgress[a][i]]
              /\ kind = "ENCOUNTER_STARTED" =>
                    /\ \A i \in tr :
                          NewEvents[i].payload.ref = c.nextEncounterId
                    /\ Len(spoolProgress'[a]) = Len(spoolProgress[a])
                    /\ \A i \in DOMAIN spoolProgress[a] :
                          /\ spoolProgress'[a][i].spoolId
                                = spoolProgress[a][i].spoolId
                          /\ spoolProgress'[a][i].status
                                = spoolProgress[a][i].status
              /\ kind = "SPOOL_ENTERED" =>
                    /\ \A i \in tr :
                          NewEvents[i].payload.ref = c.nextSpoolId
                    /\ Len(spoolProgress'[a]) = Len(spoolProgress[a]) + 1
                    /\ SubSeq(spoolProgress'[a], 1, Len(spoolProgress[a]))
                          = spoolProgress[a]
              /\ kind = None => spoolProgress' = spoolProgress
      ]_vars

\* the terminal choice decline, which also names a next encounter and a
\* next spool, was resolved for an agent in spool intro: the spool is
\* COMPLETED at that frame, its encounter is still meet and no spool was
\* entered
C24_Witness ==
    \E a \in AgentIds :
        /\ Len(spoolProgress[a]) = 1
        /\ spoolProgress[a][1].spoolId = "intro"
        /\ spoolProgress[a][1].status = "COMPLETED"
        /\ spoolProgress[a][1].completedAtFrame = 1
        /\ spoolProgress[a][1].currentEncounterId = "meet"
        /\ \E i \in DOMAIN sessionData[a] :
              sessionData[a][i].choiceId = "decline"

\* the index of the first ACTIVE entry of a progress list, 0 if none
FirstActive(progress) ==
    LET act == {i \in DOMAIN progress : progress[i].status = "ACTIVE"}
    IN  IF act = {} THEN 0
        ELSE CHOOSE i \in act : \A j \in act : i <= j

\* C25: resolving a non-terminal choice with a next-encounter id sets the
\* current-encounter id of the agent's first ACTIVE SpoolProgress entry (in
\* list order) to that id and emits ENCOUNTER_STARTED; every other
\* SpoolProgress entry of the agent, further ACTIVE entries included, is
\* left unchanged.
C25_FirstActiveOnly ==
    [][ ( /\ ChoiceStep
          /\ ~FindChoice(actions[ridx].choiceId).choice.isTerminal
          /\ FindChoice(actions[ridx].choiceId).choice.nextEncounterId
                # None )
        => LET a == actions[ridx].agentId
               next == FindChoice(actions[ridx].choiceId)
                          .choice.nextEncounterId
               first == FirstActive(spoolProgress[a])
           IN  /\ Cardinality(TypedAt({"ENCOUNTER_STARTED"})) = 1
               /\ spoolProgress'[a] =
                     [i \in DOMAIN spoolProgress[a] |->
                         IF i = first
                         THEN [spoolProgress[a][i] EXCEPT
                                  !.currentEncounterId = next]
                         ELSE spoolProgress[a][i]]
      ]_vars

C27_CurrentEncounterActive ==
    [][ ObservationStep =>
          \A a \in AgentIds :
              isActive[a] =>
                LET act == SelectSeq(spoolProgress[a],
                              LAMBDA p : /\ p.status = "ACTIVE"
                                         /\ p.currentEncounterId # None)
                IN  IF act = <<>>
                    THEN /\ agentViews'[a].currentEncounter = None
                         /\ agentViews'[a].availableChoices = <<>>
                    ELSE agentViews'[a].currentEncounter
                            = act[1].currentEncounterId
      ]_vars

\* the position of a spool in the declaration order of the storyworld
SpoolIndex(id) == CHOOSE k \in DOMAIN StorySpools : StorySpools[k].id = id

\* C28: availableSpools of an agent's view is, in storyworld declaration
\* order, exactly the spools that have no entry (of any status) in that
\* agent's SpoolProgress list and whose entry gate is absent or evaluates
\* true on the current World State; a spool appears as soon as its gate
\* variable satisfies the gate (alliance with trust >= 2) and never again
\* once the agent has a progress entry for it.
C28_AvailableSpools ==
    [][ ObservationStep =>
          \A a \in AgentIds :
              isActive[a] =>
                LET av == agentViews'[a].availableSpools
                    entered == {spoolProgress[a][i].spoolId :
                                   i \in DOMAIN spoolProgress[a]}
                IN  /\ \A k \in DOMAIN StorySpools :
                          (StorySpools[k].id \in Range(av))
                          <=> /\ StorySpools[k].id \notin entered
                              /\ \/ StorySpools[k].entryGateId = None
                                 \/ Evaluate(StorySpools[k].entryGateId,
                                             variables)
                    /\ ("alliance" \in Range(av))
                          <=> /\ "alliance" \notin entered
                              /\ variables["trust"].value.t = "num"
                              /\ variables["trust"].value.n >= 2
                    /\ \A i, j \in DOMAIN av :
                          i < j => SpoolIndex(av[i]) < SpoolIndex(av[j])
      ]_vars

\* trust was raised to 2 by one agent, which then entered alliance: its
\* view no longer lists alliance, the view of the other agent does
C28_Witness ==
    /\ variables["trust"].value = Num(2)
    /\ agentViews["a1"].frame = 2
    /\ agentViews["a3"].frame = 2
    /\ \E i \in DOMAIN spoolProgress["a1"] :
          spoolProgress["a1"][i].spoolId = "alliance"
    /\ "alliance" \notin Range(agentViews["a1"].availableSpools)
    /\ "alliance" \in Range(agentViews["a3"].availableSpools)
    /\ "intro" \in Range(agentViews["a1"].availableSpools)

\* the position of a choice in the declaration order of its encounter
DeclaredIndex(encounterId, id) ==
    CHOOSE k \in DOMAIN EncounterById(encounterId).choices :
        EncounterById(encounterId).choices[k].id = id

\* C29: availableChoices of a view is the sub-list, in declaration order, of
\* the current encounter's choices whose gate is absent or evaluates true on
\* the World State at observation time; it is empty when there is no current
\* encounter, and it is always a subset of the current encounter's declared
\* choices (decline of meet is offered exactly when trust >= 2).
C29_AvailableChoices ==
    [][ ObservationStep =>
          \A a \in AgentIds :
              isActive[a] =>
                LET enc == agentViews'[a].currentEncounter
                    av == agentViews'[a].availableChoices
                IN  IF enc = None
                    THEN av = <<>>
                    ELSE LET declared == EncounterById(enc).choices
                         IN  /\ Range(av) \subseteq
                                    {declared[k].id : k \in DOMAIN declared}
                             /\ \A k \in DOMAIN declared :
                                   (declared[k].id \in Range(av))
                                   <=> \/ declared[k].gateId = None
                                       \/ Evaluate(declared[k].gateId,
                                                   variables)
                             /\ ("decline" \in Range(av))
                                   <=> /\ enc = "meet"
                                       /\ variables["trust"].value.t = "num"
                                       /\ variables["trust"].value.n >= 2
                             /\ \A i, j \in DOMAIN av :
                                   i < j => DeclaredIndex(enc, av[i])
                                              < DeclaredIndex(enc, av[j])
      ]_vars

\* an agent at encounter meet while trust is below the gate of decline: the
\* view offers propose only
C29_Witness ==
    \E a \in AgentIds :
        /\ isActive[a]
        /\ agentViews[a].frame = currentFrame
        /\ agentViews[a].currentEncounter = "meet"
        /\ variables["trust"].value = Num(1)
        /\ agentViews[a].availableChoices = << "propose" >>

\* a step of the resolution loop whose choice id is found in an encounter
FoundChoiceStep ==
    /\ pc = "resolve"
    /\ ridx <= Len(actions)
    /\ actions[ridx].choiceId # None
    /\ ChoiceFound(FindChoice(actions[ridx].choiceId))


\* C30: resolving a found choice with k mutations appends to the event log,
\* in this order, k VARIABLE_CHANGED events (one per mutation, in
\* declaration order), then exactly one CHOICE_MADE event, then at most one
\* of SPOOL_COMPLETED, ENCOUNTER_STARTED or SPOOL_ENTERED, all with the
\* choosing agent as actor, and pushes exactly one new ledger entry for
\* that agent.
C30_ChoiceEvents ==
    [][ FoundChoiceStep =>
          LET a == actions[ridx].agentId
              c == FindChoice(actions[ridx].choiceId).choice
              k == Len(c.mutations)
          IN  /\ Len(NewEvents) \in {k + 1, k + 2}
              /\ \A i \in 1..k :
                    /\ NewEvents[i].eventType = "VARIABLE_CHANGED"
                    /\ NewEvents[i].payload.ref = c.mutations[i].variableId
                    /\ NewEvents[i].payload.op = c.mutations[i].operation
              /\ NewEvents[k + 1].eventType = "CHOICE_MADE"
              /\ NewEvents[k + 1].payload.ref = c.id
              /\ Len(NewEvents) = k + 2 =>
                    NewEvents[k + 2].eventType \in
                       {"SPOOL_COMPLETED", "ENCOUNTER_STARTED",
                        "SPOOL_ENTERED"}
              /\ \A i \in DOMAIN NewEvents : NewEvents[i].actorId = a
              /\ Len(sessionData'[a]) = Len(sessionData[a]) + 1
              /\ sessionData'[a][Len(sessionData'[a])].choiceId = c.id
      ]_vars

\* ------------------------------------------------------------------------
\* WorldState.applyMutation on typed values
\* ------------------------------------------------------------------------
\* the World State of a storyworld whose default values are defaults
WorldWith(defaults) ==
    [id \in DeclaredVarIds |->
        [variableId |-> id, value |-> defaults[id],
         lastModifiedFrame |-> 0, modifiedBy |-> None]]

\* default values of the declared types
TypedDefaults ==
    {[id \in DeclaredVarIds |->
        CASE id = "trust" -> Num(t)
          [] id = "mood" -> Bool(b)
          [] id = "pact" -> Num(0)
          [] id = "notes" -> Arr(<< Num(1), Bool(TRUE), Num(1) >>)] :
     t \in 1..2, b \in BOOLEAN}

\* mutations whose operation fits the declared type of their variable
TypedMutations ==
    {Mut("trust", "SET", Num(0)), Mut("trust", "ADD", Num(2)),
     Mut("trust", "SUBTRACT", Num(2)), Mut("trust", "MULTIPLY", Num(2)),
     Mut("mood", "TOGGLE", Undef),
     Mut("notes", "APPEND", Num(1)), Mut("notes", "APPEND", Num(2)),
     Mut("notes", "REMOVE", Num(1)), Mut("notes", "REMOVE", Num(2))}

\* a running simulation whose World State is one of worlds
InitWorld(worlds) ==
    /\ eventHandlers = <<>>
    /\ snapshotInterval = DefaultSnapshotInterval
    /\ snapshotsTaken = <<>>
    /\ snapshotsSaved = <<>>
    /\ exported = <<>>
    /\ status = "RUNNING"
    /\ currentFrame = 0
    /\ maxFrames = MaxFramesBound
    /\ isActive = SlotActive
    /\ wsFrame = 0
    /\ variables \in worlds
    /\ spoolProgress = [a \in AgentIds |-> <<>>]
    /\ events = <<>>
    /\ sessionData = [a \in AgentIds |-> <<>>]
    /\ pc = "idle"
    /\ cidx = 0
    /\ agentViews = [a \in AgentIds |-> NoView]
    /\ actions = <<>>
    /\ ridx = 0
    /\ lastCall = [op |-> "start", result |-> "ok"]
    /\ pendingLate = {}
    /\ budget = 0
    /\ deliveries = <<>>

\* a running simulation over a storyworld with typed default values
InitMutation == InitWorld({WorldWith(d) : d \in TypedDefaults})

\* one iteration of the mutation loop of processChoice: applyMutation, then
\* the VARIABLE_CHANGED event
MutationLoopStep ==
    /\ Len(events) < MaxInputs
    /\ \E a \in AgentIds, m \in TypedMutations :
          /\ ~MutationThrows(variables, m)
          /\ variables' = ApplyMutation(variables, m, a, wsFrame)
          /\ events' = EmitEvent(events, "STATE", "VARIABLE_CHANGED",
                                 Payload(m.variableId, m.operation, m.value,
                                         FALSE, 0),
                                 a, currentFrame)
    /\ deliveries' = DeliverNew(deliveries, events', Len(events) + 1)
    /\ UNCHANGED << status, currentFrame, maxFrames, isActive, wsFrame,
                    spoolProgress, sessionData, pc, cidx, agentViews,
                    actions, ridx, lastCall, pendingLate, budget,
                    eventHandlers, exported, snapshotInterval,
                    snapshotsTaken, snapshotsSaved >>

\* the transition of executeFrame seen from the World State: advanceFrame
\* and the frame counter of the simulation
WorldAdvanceFrame ==
    /\ wsFrame < MaxFramesBound - 1
    /\ wsFrame' = wsFrame + 1
    /\ currentFrame' = NextFrame(currentFrame)
    /\ UNCHANGED << status, maxFrames, isActive, variables, spoolProgress,
                    events, sessionData, pc, cidx, agentViews, actions,
                    ridx, lastCall, pendingLate, budget, eventHandlers,
                    deliveries, exported, snapshotInterval, snapshotsTaken,
                    snapshotsSaved >>

NextMutation == MutationLoopStep \/ WorldAdvanceFrame

SpecMutation == InitMutation /\ [][NextMutation]_vars

\* C31: applyMutation on an existing variable computes the new value as:
\* SET gives the operand; ADD, SUBTRACT, MULTIPLY give current plus, minus,
\* times operand on numbers; APPEND gives the current sequence with the
\* operand added at the end; REMOVE gives the current sequence without
\* every element equal to the operand, order of the rest kept; TOGGLE gives
\* the logical negation of a boolean.  It writes lastModifiedFrame equal to
\* the World State's current frame and modifiedBy equal to the actor, so
\* lastModifiedFrame never exceeds the current frame, and the new value is
\* a function of the current value and the mutation alone.
C31_MutationResult ==
    [][ /\ \A x \in DOMAIN variables' :
              variables'[x].lastModifiedFrame <= wsFrame'
        /\ Len(events') > Len(events) =>
              LET e == events'[Len(events')]
                  id == e.payload.ref
                  op == e.payload.op
                  v == e.payload.val
                  cur == variables[id].value
                  new == variables'[id]
              IN  /\ op = "SET" => new.value = v
                  /\ op = "ADD" => new.value = Num(cur.n + v.n)
                  /\ op = "SUBTRACT" => new.value = Num(cur.n - v.n)
                  /\ op = "MULTIPLY" => new.value = Num(cur.n * v.n)
                  /\ op = "APPEND" => new.value = Arr(cur.s \o << v >>)
                  /\ op = "REMOVE" =>
                        new.value = Arr(SelectSeq(cur.s, LAMBDA x : x # v))
                  /\ op = "TOGGLE" => new.value = Bool(~cur.b)
                  /\ op \in {"ADD", "SUBTRACT", "MULTIPLY"} =>
                        cur.t = "num" /\ v.t = "num"
                  /\ op \in {"APPEND", "REMOVE"} => cur.t = "seq"
                  /\ op = "TOGGLE" => cur.t = "bool"
                  /\ new.lastModifiedFrame = wsFrame
                  /\ new.modifiedBy = e.actorId
                  /\ \A x \in DOMAIN variables \ {id} :
                        variables'[x] = variables[x]
      ]_vars

\* after one advanceFrame, REMOVE of 1 by a3 took both 1s out of
\* << 1, TRUE, 1 >> and stamped the variable with frame 1 and a3
C31_Witness ==
    /\ events # <<>>
    /\ events[Len(events)].payload.op = "REMOVE"
    /\ events[Len(events)].payload.val = Num(1)
    /\ variables["notes"].value = Arr(<< Bool(TRUE) >>)
    /\ variables["notes"].lastModifiedFrame = 1
    /\ variables["notes"].modifiedBy = "a3"
    /\ wsFrame = 1

\* ------------------------------------------------------------------------
\* GateEvaluator on well-formed gate trees
\* ------------------------------------------------------------------------
\* World States holding numbers, booleans and sequences
GateWorlds ==
    {WorldWith([id \in DeclaredVarIds |->
        CASE id = "trust" -> Num(t)
          [] id = "mood" -> Bool(b)
          [] id = "pact" -> Num(0)
          [] id = "notes" -> Arr(q)]) :
     t \in 1..3, b \in BOOLEAN,
     q \in {<<>>, << Num(1) >>, << Num(2), Num(1) >>}}

\* conditions without children: comparisons, set tests, existence tests
\* ("ghost" is declared by no storyworld variable)
LeafConditions ==
    {Cond(op, "trust", Num(2), <<>>) :
        op \in {"EQ", "NEQ", "GT", "GTE", "LT", "LTE"}}
    \cup {Cond(op, "mood", Bool(TRUE), <<>>) : op \in {"EQ", "NEQ"}}
    \cup {Cond(op, v, Num(1), <<>>) :
            op \in {"CONTAINS", "NOT_CONTAINS"}, v \in {"notes", "trust"}}
    \cup {Cond(op, v, Undef, <<>>) :
            op \in {"EXISTS", "NOT_EXISTS"}, v \in {"mood", "ghost"}}

\* the conditions used as children of the composite conditions
ChildLeaves ==
    {Cond("GTE", "trust", Num(2), <<>>),
     Cond("CONTAINS", "notes", Num(1), <<>>),
     Cond("EXISTS", "ghost", Undef, <<>>),
     Cond("NOT_EXISTS", "ghost", Undef, <<>>)}

\* the well-formed gate trees that are evaluated; the composite
\* conditions have no, one or two children
GateTrees ==
    LET lists == {<<>>} \cup {<< c >> : c \in ChildLeaves}
                 \cup {<< c, d >> : c \in ChildLeaves, d \in ChildLeaves}
        flat == {Cond(op, None, Undef, kids) :
                    op \in {"AND", "OR"}, kids \in lists}
    IN  LeafConditions \cup flat
        \cup {Cond("NOT", None, Undef, << c >>) :
                c \in LeafConditions \cup flat}
        \cup {Cond(op, None, Undef, << c, d >>) :
                op \in {"AND", "OR"}, d \in ChildLeaves,
                c \in {Cond("NOT", None, Undef, << e >>) :
                          e \in ChildLeaves}}

\* a call of GateEvaluator.evaluateCondition on a gate tree, or of
\* GateEvaluator.evaluate on a gate id, with the answer it returns
EvaluateGate ==
    /\ lastCall.op = "start"
    /\ \/ \E g \in GateTrees :
             lastCall' = [op |-> "evaluateCondition", gateId |-> None,
                          condition |-> g,
                          result |-> EvaluateCondition(g, variables)]
       \/ \E id \in {g.id : g \in Range(StoryGates)} \cup {"missing"} :
             lastCall' = [op |-> "evaluate", gateId |-> id,
                          condition |-> Cond(None, None, Undef, <<>>),
                          result |-> Evaluate(id, variables)]
    /\ UNCHANGED << status, currentFrame, maxFrames, isActive, wsFrame,
                    variables, spoolProgress, events, sessionData, pc, cidx,
                    agentViews, actions, ridx, pendingLate, budget,
                    eventHandlers, deliveries, exported, snapshotInterval,
                    snapshotsTaken, snapshotsSaved >>

SpecGate == InitWorld(GateWorlds) /\ [][EvaluateGate]_vars

\* the condition with its operator replaced
WithOperator(g, op) == [g EXCEPT !.operator = op]

\* C32: evaluate agrees with the reference semantics on every well-formed
\* gate tree over bounded values: a gate id not declared in the storyworld
\* evaluates true; AND is true iff all children are true (true with no
\* children); OR is true iff some child is true (false with no children);
\* NOT of one child is its negation; EQ/NEQ, CONTAINS/NOT_CONTAINS and
\* EXISTS/NOT_EXISTS are pairwise complementary on every value; GT, GTE,
\* LT, LTE compare the variable's numeric value with the literal.
C32_GateSemantics ==
    /\ (lastCall.op = "evaluate" /\ lastCall.gateId = "missing")
          => lastCall.result
    /\ lastCall.op = "evaluateCondition" =>
          LET g == lastCall.condition
              r == lastCall.result
              op == g.operator
              kids == g.children
              val == IF g.variableId \in DOMAIN variables
                     THEN variables[g.variableId].value ELSE Undef
          IN  /\ op = "AND" =>
                    (r <=> \A i \in DOMAIN kids :
                              EvaluateCondition(kids[i], variables))
              /\ (op = "AND" /\ kids = <<>>) => r
              /\ op = "OR" =>
                    (r <=> \E i \in DOMAIN kids :
                              EvaluateCondition(kids[i], variables))
              /\ (op = "OR" /\ kids = <<>>) => ~r
              /\ op = "NOT" =>
                    (r <=> ~EvaluateCondition(kids[1], variables))
              /\ op = "EQ" =>
                    /\ r <=> val = g.value
                    /\ r # EvaluateCondition(WithOperator(g, "NEQ"),
                                             variables)
              /\ op = "NEQ" =>
                    r # EvaluateCondition(WithOperator(g, "EQ"), variables)
              /\ op = "CONTAINS" =>
                    /\ r <=> (val.t = "seq" /\ g.value \in Range(val.s))
                    /\ r # EvaluateCondition(WithOperator(g, "NOT_CONTAINS"),
                                             variables)
              /\ op = "NOT_CONTAINS" =>
                    r # EvaluateCondition(WithOperator(g, "CONTAINS"),
                                          variables)
              /\ op = "EXISTS" =>
                    /\ r <=> g.variableId \in DOMAIN variables
                    /\ r # EvaluateCondition(WithOperator(g, "NOT_EXISTS"),
                                             variables)
              /\ op = "NOT_EXISTS" =>
                    r # EvaluateCondition(WithOperator(g, "EXISTS"),
                                          variables)
              /\ op = "GT" => (r <=> val.n > g.value.n)
              /\ op = "GTE" => (r <=> val.n >= g.value.n)
              /\ op = "LT" => (r <=> val.n < g.value.n)
              /\ op = "LTE" => (r <=> val.n <= g.value.n)

\* trust 1 fails GTE 2 inside a negated conjunction: the NOT is true
C32_Witness ==
    /\ lastCall.op = "evaluateCondition"
    /\ lastCall.condition =
          Cond("NOT", None, Undef,
               << Cond("AND", None, Undef,
                       << Cond("NOT_EXISTS", "ghost", Undef, <<>>),
                          Cond("GTE", "trust", Num(2), <<>>) >>) >>)
    /\ variables["trust"].value = Num(1)
    /\ lastCall.result

\* ------------------------------------------------------------------------
\* An engine that hosts a second simulation
\* ------------------------------------------------------------------------
\* SimulationEngine.createSimulation called again on the engine, with the
\* same agents: the simulation record and the ledgers are replaced, the
\* World States, the event log and the configuration are kept
CreateSimulation ==
    /\ pc = "idle"
    /\ Cardinality({i \in DOMAIN events :
                       events[i].eventType = "SIMULATION_CREATED"}) = 1
    /\ status' = "INITIALIZING"
    /\ currentFrame' = 0
    /\ isActive' = SlotActive
    /\ sessionData' = [a \in AgentIds |-> <<>>]
    /\ events' = EmitEvent(events, "SYSTEM", "SIMULATION_CREATED",
                           Payload(None, None, Undef, FALSE, NumAgents),
                           None, 0)
    /\ lastCall' = [op |-> "createSimulation", result |-> "ok"]
    /\ UNCHANGED << maxFrames, wsFrame, variables, spoolProgress, pc, cidx,
                    agentViews, actions, ridx, pendingLate, budget >>
    /\ deliveries' = DeliverNew(deliveries, events', Len(events) + 1)
    /\ UNCHANGED << eventHandlers, exported, snapshotInterval,
                    snapshotsTaken, snapshotsSaved >>

NextRecreate ==
    \/ Start
    \/ Complete
    \/ ExecuteFrame
    \/ \E o \in ExportOutcomes : WithinBudget(o) /\ Collect(o)
    \/ Resolve
    \/ FrameTransition
    \/ CreateSimulation

SpecRecreate == Init /\ [][NextRecreate]_vars

\* the transition stage of a frame that reached it
TransitionStep ==
    /\ pc = "resolve"
    /\ pc' = "idle"
    /\ lastCall'.result = "ok"

\* C33: the transition stage of a frame advances the frame counter of the
\* World State by one and the simulation's currentFrame by one, and changes
\* no variable value and no SpoolProgress; consequently, for a storyworld
\* loaded before the simulation was created, the World State's frame
\* equals the simulation's currentFrame at every frame boundary, and the
\* frame stamped on a view equals the frame stamped on the events of that
\* frame.
C33_FrameAligned ==
    [][ /\ TransitionStep =>
              /\ wsFrame' = wsFrame + 1
              /\ currentFrame' = currentFrame + 1
              /\ variables' = variables
              /\ spoolProgress' = spoolProgress
        /\ pc' = "idle" => wsFrame' = currentFrame'
        /\ ObservationStep =>
              \A a \in AgentIds :
                  isActive[a] =>
                    \A i \in DOMAIN NewEvents :
                        NewEvents[i].frame = agentViews'[a].frame
      ]_vars

\* C34: SpoolProgress is never deleted, only status-transitioned: over any
\* sequence of frames the length of each agent's SpoolProgress list never
\* decreases, an existing entry keeps its spoolId, agentId and
\* enteredAtFrame, and an entry that has reached status COMPLETED never
\* returns to another status.
C34_ProgressKept ==
    [][ \A a \in AgentIds :
          /\ Len(spoolProgress'[a]) >= Len(spoolProgress[a])
          /\ \A i \in DOMAIN spoolProgress[a] :
                /\ spoolProgress'[a][i].spoolId = spoolProgress[a][i].spoolId
                /\ spoolProgress'[a][i].agentId = spoolProgress[a][i].agentId
                /\ spoolProgress'[a][i].enteredAtFrame
                      = spoolProgress[a][i].enteredAtFrame
                /\ spoolProgress[a][i].status = "COMPLETED"
                      => spoolProgress'[a][i].status = "COMPLETED"
      ]_vars

\* an entry entered in frame 0 and completed in frame 1 is still in the
\* list, COMPLETED, after the frames that followed
C34_Witness ==
    \E a \in AgentIds :
        /\ spoolProgress[a] # <<>>
        /\ spoolProgress[a][1].status = "COMPLETED"
        /\ spoolProgress[a][1].enteredAtFrame = 0
        /\ spoolProgress[a][1].completedAtFrame = 1
        /\ currentFrame = MaxFramesBound + 1

\* C35: every resolved choice of an agent appends one (encounter, choice,
\* frame) triple to the ordered history of that agent's SpoolProgress for
\* the spool owning the encounter, so that after n resolved choices in a
\* spool its history has n entries in resolution order.
C35_HistoryAppended ==
    [][ ChoiceStep =>
          LET a == actions[ridx].agentId
              found == FindChoice(actions[ridx].choiceId)
          IN  \A i \in DOMAIN spoolProgress[a] :
                  spoolProgress[a][i].spoolId = found.encounter.spoolId =>
                      spoolProgress'[a][i].choiceHistory
                        = Append(spoolProgress[a][i].choiceHistory,
                                 [encounterId |-> found.encounter.id,
                                  choiceId |-> found.choice.id,
                                  frame |-> currentFrame])
      ]_vars

\* the events i and j of the log belong to the same simulation: no
\* createSimulation lies between them
SameSimulation(i, j) ==
    \A k \in (i + 1)..j : events[k].eventType # "SIMULATION_CREATED"

\* C36: the event log is append-only: every operation only adds events at
\* the end and never removes, reorders or alters an earlier event; each
\* event carries the simulation's currentFrame at the moment of emission,
\* so within one simulation the frame stamps are non-decreasing in log
\* order.
C36_AppendOnlyLog ==
    [][ /\ LogExtended
        /\ \A i \in DOMAIN NewEvents :
              NewEvents[i].frame \in {currentFrame, currentFrame'}
        /\ \A i \in DOMAIN NewEvents :
              NewEvents[i].eventType \in
                  {"SIMULATION_CREATED", "SIMULATION_COMPLETED"}
              => NewEvents[i].frame = currentFrame'
        /\ \A i, j \in DOMAIN events' :
              (i < j /\ SameSimulation(i, j)')
              => events'[i].frame <= events'[j].frame
      ]_vars

\* the log of a second simulation on the engine: its events are stamped
\* from 0 again, after events of the first simulation stamped 1
C36_Witness ==
    /\ Cardinality({i \in DOMAIN events :
                       events[i].eventType = "SIMULATION_CREATED"}) = 2
    /\ \E i, j \in DOMAIN events :
          /\ i < j
          /\ events[i].frame = 1
          /\ events[j].frame = 0
          /\ events[j].eventType = "VIEW_DELIVERED"
    /\ events[Len(events)].frame = 1
    /\ events[Len(events)].eventType = "SIMULATION_COMPLETED"

\* C37: with sequential calls and maxFrames >= 1, currentFrame never
\* exceeds maxFrames in any reachable state, and once the status is
\* COMPLETED no variable, SpoolProgress or ledger entry changes any more.
C37_BoundedAndFrozen ==
    [][ /\ maxFrames' >= 1 => currentFrame' <= maxFrames'
        /\ status = "COMPLETED" =>
              /\ status' = "COMPLETED"
              /\ UNCHANGED << variables, spoolProgress, sessionData >>
      ]_vars

\* a simulation that ran to maxFrames = 2 with a resolved choice, and an
\* executeFrame call that failed afterwards
C37_Witness ==
    /\ status = "COMPLETED"
    /\ maxFrames = MaxFramesBound
    /\ currentFrame = maxFrames
    /\ \E a \in AgentIds : sessionData[a] # <<>>
    /\ variables["trust"].modifiedBy # None
    /\ lastCall = [op |-> "executeFrame", result |-> "error"]

\* C38: resolving a choice of agent B changes only B's own SpoolProgress
\* list and B's own choice ledger: for every other agent A, A's
\* SpoolProgress list and A's ledger are identical before and after,
\* whatever choice id B submitted.
C38_OthersUntouched ==
    [][ (pc = "resolve" /\ ridx <= Len(actions)) =>
          \A a \in AgentIds \ {actions[ridx].agentId} :
              /\ spoolProgress'[a] = spoolProgress[a]
              /\ sessionData'[a] = sessionData[a]
      ]_vars

\* a3 resolved propose in frame 1 while a1 was ACTIVE at encounter meet:
\* the entry of a1 is still at meet and the ledger of a1 still has one entry
C38_Witness ==
    /\ Len(sessionData["a3"]) = 1
    /\ sessionData["a3"][1].choiceId = "propose"
    /\ sessionData["a3"][1].frame = 1
    /\ Len(sessionData["a1"]) = 1
    /\ Len(spoolProgress["a1"]) = 1
    /\ spoolProgress["a1"][1].status = "ACTIVE"
    /\ spoolProgress["a1"][1].currentEncounterId = "meet"
    /\ spoolProgress["a3"] = <<>>

\* ------------------------------------------------------------------------
\* Overlapping calls: complete() while executeFrame awaits a callback
\* ------------------------------------------------------------------------
\* SimulationEngine.complete called by the host while executeFrame is
\* suspended at the await of the collection loop; complete has no guard
\* and executeFrame reads the status only at its entry
CompleteOverlapped ==
    /\ pc = "collect"
    /\ budget < MaxInputs
    /\ budget' = budget + 1
    /\ status' = "COMPLETED"
    /\ events' = EmitEvent(events, "SYSTEM", "SIMULATION_COMPLETED",
                           NoPayload, None, currentFrame)
    /\ UNCHANGED << currentFrame, maxFrames, isActive, wsFrame, variables,
                    spoolProgress, sessionData, pc, cidx, agentViews,
                    actions, ridx, lastCall, pendingLate >>
    /\ deliveries' = DeliverNew(deliveries, events', Len(events) + 1)
    /\ UNCHANGED << eventHandlers, exported, snapshotInterval,
                    snapshotsTaken, snapshotsSaved >>

NextOverlap ==
    \/ Start
    \/ ExecuteFrame
    \/ \E o \in ExportOutcomes : WithinBudget(o) /\ Collect(o)
    \/ CompleteOverlapped
    \/ Resolve
    \/ FrameTransition

SpecOverlap == Init /\ [][NextOverlap]_vars

\* C39: frames do not interleave and a finished simulation stays frozen
\* even when calls overlap: if complete() is invoked while an executeFrame
\* is suspended awaiting a decision callback, no choice is resolved from a
\* view built before another frame's resolution, no choice is resolved and
\* no frame advance happens after the status has become COMPLETED, and
\* currentFrame never exceeds maxFrames.
C39_OverlapSafe ==
    [][ /\ currentFrame' <= maxFrames'
        /\ (pc = "resolve" /\ ridx <= Len(actions))
              => agentViews[actions[ridx].agentId].frame = wsFrame
        /\ status = "COMPLETED" =>
              /\ currentFrame' = currentFrame
              /\ wsFrame' = wsFrame
              /\ UNCHANGED << variables, spoolProgress, sessionData >>
      ]_vars

=============================================================================
